---- MODULE Spec2Model ----
(***************************************************************************)
(* A model of the compiler front end of src/compiler.py: the scanner       *)
(* (scan_source), the recursive-descent parser (class Parser) and the      *)
(* semantic analyzer (class SemanticAnalyzer).                             *)
(*                                                                         *)
(* A source text is a sequence of one-character strings; positions are     *)
(* 0-based as in the Python code, so source[pos] is written src[pos + 1].  *)
(***************************************************************************)
EXTENDS Integers, Sequences, FiniteSets, TLC

VARIABLES
    source,      \* scan_source: the parameter `source`
    pos,         \* scan_source: the cursor `pos`
    line,        \* scan_source: the running line counter `line`
    tokens,      \* scan_source: the local list `tokens`
    scanState,   \* "scanning" | "returned" | "raised"
    scanError,   \* the class of the exception scan_source raised, or "None"
    scanResult,  \* the value scan_source returned; <<>> while none was returned
    fragA,       \* concatenation property: the first source fragment
    fragB,       \* concatenation property: the second source fragment
    sep,         \* concatenation property: the separating whitespace character
    outA,        \* the outcome of scan_source(fragA)
    outB,        \* the outcome of scan_source(fragB)
    outAB,       \* the outcome of scan_source(fragA + sep + fragB)
    ptokens,     \* Parser: self.tokens
    ppos,        \* Parser: self.pos
    padv,        \* Parser: the positions advance() has consumed, in order
    parsePc,     \* where parse() stands: "functions" | "main_block" | "after_main"
    progChildren,\* parse: program.children
    mainStmts,   \* statement_list of main's block: node.children
    parseState,  \* "parsing" | "returned" | "raised"
    parseError,  \* the message of the ParserError raised, or "None"
    parseResult, \* the node parse() returned; NoNode while none was returned
    root,        \* SemanticAnalyzer: self.root
    scopes,      \* SemanticAnalyzer: self.symbols.scopes
    table,       \* SemanticAnalyzer: self.functions.table
    current_return_type, \* SemanticAnalyzer: self.current_return_type
    pending_params,      \* SemanticAnalyzer: self.pending_params
    frames,      \* analyze(): what the active visit_ calls have yet to do
    semState,    \* "analyzing" | "passed" | "raised"
    semError     \* the message of the SemanticError raised, or "None"

scanVars == <<source, pos, line, tokens, scanState, scanError, scanResult>>

concatVars == <<fragA, fragB, sep, outA, outB, outAB>>

parseVars == <<ptokens, ppos, padv, parsePc, progChildren, mainStmts,
               parseState, parseError, parseResult>>

semVars == <<root, scopes, table, current_return_type, pending_params, frames,
             semState, semError>>

vars == <<scanVars, concatVars, parseVars, semVars>>

(***************************************************************************)
(* Bounds of the model.                                                    *)
(***************************************************************************)
MaxLen == 3          \* longest source text enumerated exhaustively
MaxFrag == 2         \* longest source fragment of the concatenation property
MaxItems == 3        \* most top-level items (functions, mains, stray tokens) of a program
MaxTail == 3         \* most tokens after the first token of an enumerated statement
MaxOps == 2          \* most binary operators of an enumerated operator chain
MaxFuncs == 2        \* most function declarations of an enumerated calling program
MaxInner == 1        \* most statements in the block of an enumerated if statement
MaxStmts == 2        \* most statements in main's block of an enumerated program
MaxParams == 2       \* most parameters of a function and arguments of a call enumerated

(***************************************************************************)
(* SCANNER                                                                 *)
(***************************************************************************)
DATATYPES == {"d7krqm", "d7k34ry", "d7kmslsl", "d7kmntq"}

KEYWORDS == {"d7ktba3a", "d7ked5al", "d7klo", "d7k8er",
             "d7kdw5ny", "d7klf", "d7krg3", "d7kbdaya"}

BOOL_LITERALS == {"true", "false"}

\* The character classes of the regular expressions of SCANNER_PATTERNS.
WsChars == {" ", "\t", "\r", "\n"}

Digits == {"0", "1", "2", "3", "4", "5", "6", "7", "8", "9"}

Letters == {"a", "b", "c", "d", "e", "f", "g", "h", "i", "j", "k", "l", "m",
            "n", "o", "p", "q", "r", "s", "t", "u", "v", "w", "x", "y", "z",
            "A", "B", "C", "D", "E", "F", "G", "H", "I", "J", "K", "L", "M",
            "N", "O", "P", "Q", "R", "S", "T", "U", "V", "W", "X", "Y", "Z"}

IdentStart == Letters \cup {"_"}

WordChars == Letters \cup Digits \cup {"_"}

SymbolChars == {"{", "}", "(", ")", ",", ";", "=", "+", "-", "*", "/"}

NoMatch == -1

\* source[i], or "" past the end (0-based)
CharAt(src, i) == IF i >= 0 /\ i < Len(src) THEN src[i + 1] ELSE ""

\* source[a:b] as a string
RECURSIVE Slice(_, _, _)
Slice(src, a, b) == IF a >= b THEN "" ELSE src[a + 1] \o Slice(src, a + 1, b)

\* text.count("\n") for text = source[a:b]
RECURSIVE CountNewlines(_, _, _)
CountNewlines(src, a, b) ==
    IF a >= b THEN 0
    ELSE (IF src[a + 1] = "\n" THEN 1 ELSE 0) + CountNewlines(src, a + 1, b)

\* the end of the longest run of characters of S starting at i (greedy X*)
RECURSIVE SpanIn(_, _, _)
SpanIn(src, i, S) ==
    IF i < Len(src) /\ src[i + 1] \in S THEN SpanIn(src, i + 1, S) ELSE i

\* the end of the longest run of characters not in S starting at i
RECURSIVE SpanNotIn(_, _, _)
SpanNotIn(src, i, S) ==
    IF i < Len(src) /\ src[i + 1] \notin S THEN SpanNotIn(src, i + 1, S) ELSE i

\* [ \t\r\n]+
MatchWhitespace(src, p) ==
    LET e == SpanIn(src, p, WsChars) IN IF e > p THEN e ELSE NoMatch

\* a comment pattern that runs over line ends
MatchComment_OverNewline(src, p) ==
    IF CharAt(src, p) = "/" /\ CharAt(src, p + 1) = "/"
    THEN Len(src)
    ELSE NoMatch

\* //[^\n]*
MatchComment(src, p) ==
    IF CharAt(src, p) = "/" /\ CharAt(src, p + 1) = "/"
    THEN SpanNotIn(src, p + 2, {"\n"})
    ELSE NoMatch

\* ([^"\\\n]|\\.)*" from i: the end of the match, the closing quote included
RECURSIVE StringBody(_, _)
StringBody(src, i) ==
    IF i >= Len(src) THEN NoMatch
    ELSE LET c == src[i + 1] IN
         IF c = "\"" THEN i + 1
         ELSE IF c = "\n" THEN NoMatch
         ELSE IF c = "\\"
              THEN IF i + 1 < Len(src) /\ src[i + 2] # "\n"
                   THEN StringBody(src, i + 2)
                   ELSE NoMatch
         ELSE StringBody(src, i + 1)

\* "([^"\\\n]|\\.)*"
MatchString(src, p) ==
    IF CharAt(src, p) = "\"" THEN StringBody(src, p + 1) ELSE NoMatch

\* ==|!=|<=|>=|<|>
MatchRelop(src, p) ==
    LET c == CharAt(src, p)
        d == CharAt(src, p + 1)
    IN  IF c \in {"=", "!", "<", ">"} /\ d = "=" THEN p + 2
        ELSE IF c \in {"<", ">"} THEN p + 1
        ELSE NoMatch

\* [{}(),;=+\-*/]
MatchSymbol(src, p) ==
    IF CharAt(src, p) \in SymbolChars THEN p + 1 ELSE NoMatch

\* \d+(\.\d+)?
MatchNumber(src, p) ==
    LET e == SpanIn(src, p, Digits)
        f == SpanIn(src, e + 1, Digits)
    IN  IF e = p THEN NoMatch
        ELSE IF CharAt(src, e) = "." /\ f > e + 1 THEN f
        ELSE e

\* [A-Za-z_]\w*
MatchIdent(src, p) ==
    IF CharAt(src, p) \in IdentStart THEN SpanIn(src, p + 1, WordChars)
    ELSE NoMatch

\* a list that tries SYMBOL before COMMENT and RELOP
PatternNames_SymbolFirst ==
    <<"WHITESPACE", "SYMBOL", "COMMENT", "STRING", "RELOP", "NUMBER", "IDENT">>

\* the list SCANNER_PATTERNS, in its order
PatternNames ==
    <<"WHITESPACE", "COMMENT", "STRING", "RELOP", "SYMBOL", "NUMBER", "IDENT">>

\* pattern.match(source, pos) for the pattern called name
PatternMatch(name, src, p) ==
    CASE name = "WHITESPACE" -> MatchWhitespace(src, p)
      [] name = "COMMENT"    -> MatchComment(src, p)
      [] name = "STRING"     -> MatchString(src, p)
      [] name = "RELOP"      -> MatchRelop(src, p)
      [] name = "SYMBOL"     -> MatchSymbol(src, p)
      [] name = "NUMBER"     -> MatchNumber(src, p)
      [] name = "IDENT"      -> MatchIdent(src, p)

\* the for loop of scan_source: the first pattern of the list from index k on
\* that matches at p, as [kind, end], or kind "None" when none matches
RECURSIVE FirstMatchFrom(_, _, _)
FirstMatchFrom(k, src, p) ==
    IF k > Len(PatternNames) THEN [kind |-> "None", end |-> NoMatch]
    ELSE LET e == PatternMatch(PatternNames[k], src, p) IN
         IF e # NoMatch THEN [kind |-> PatternNames[k], end |-> e]
         ELSE FirstMatchFrom(k + 1, src, p)

FirstMatch(src, p) == FirstMatchFrom(1, src, p)

Token(type, lexeme, ln) == [type |-> type, lexeme |-> lexeme, line |-> ln]

\* the classification of an IDENT match
IdentType(text) ==
    IF text \in DATATYPES THEN "DATATYPE"
    ELSE IF text \in KEYWORDS THEN "KEYWORD"
    ELSE IF text \in BOOL_LITERALS THEN "BOOL"
    ELSE "IDENT"

\* a scanner that drops comments only and keeps whitespace as tokens
Emitted_KeepsWhitespace(kind, src, p, e, ln) ==
    IF kind = "COMMENT" THEN <<>>
    ELSE IF kind = "STRING" THEN <<Token("STRING", Slice(src, p + 1, e - 1), ln)>>
    ELSE IF kind = "IDENT"
         THEN <<Token(IdentType(Slice(src, p, e)), Slice(src, p, e), ln)>>
    ELSE <<Token(kind, Slice(src, p, e), ln)>>

\* the tokens one match appends to `tokens`
Emitted(kind, src, p, e, ln) ==
    IF kind \in {"WHITESPACE", "COMMENT"} THEN <<>>
    ELSE IF kind = "STRING" THEN <<Token("STRING", Slice(src, p + 1, e - 1), ln)>>
    ELSE IF kind = "IDENT"
         THEN <<Token(IdentType(Slice(src, p, e)), Slice(src, p, e), ln)>>
    ELSE <<Token(kind, Slice(src, p, e), ln)>>

\* a line counter that advances by at most one per match
LineAfter_OncePerMatch(src, p, e, ln) ==
    ln + (IF CountNewlines(src, p, e) > 0 THEN 1 ELSE 0)

\* a line counter that never advances
LineAfter_Unchanged(src, p, e, ln) == ln

\* line += text.count("\n")
LineAfter(src, p, e, ln) == ln + CountNewlines(src, p, e)

\* the token appended after the loop
EofToken(ln) == Token("EOF", "EOF", ln)

\* the exception class of the raise statement of scan_source
ScanErrorClass == "SyntaxError"

\* the exception class the parser raises
ParserErrorClass == "ParserError"

\* one iteration of the while loop in which a pattern matches
ScanMatch ==
    /\ scanState = "scanning"
    /\ pos < Len(source)
    /\ LET m == FirstMatch(source, pos) IN
         /\ m.kind # "None"
         /\ line' = LineAfter(source, pos, m.end, line)
         /\ tokens' = tokens \o Emitted(m.kind, source, pos, m.end, line')
         /\ pos' = m.end
    /\ UNCHANGED <<source, scanState, scanError, scanResult>>

\* a scanner that stops at the unknown character and returns what it has
ScanRaise_ReturnsPartial ==
    /\ scanState = "scanning"
    /\ pos < Len(source)
    /\ FirstMatch(source, pos).kind = "None"
    /\ scanState' = "returned"
    /\ scanResult' = tokens
    /\ UNCHANGED <<source, pos, line, tokens, scanError>>

\* the iteration in which no pattern matches: raise
ScanRaise ==
    /\ scanState = "scanning"
    /\ pos < Len(source)
    /\ FirstMatch(source, pos).kind = "None"
    /\ scanState' = "raised"
    /\ scanError' = ScanErrorClass
    /\ UNCHANGED <<source, pos, line, tokens, scanResult>>

\* the loop has ended: append EOF and return
ScanReturn ==
    /\ scanState = "scanning"
    /\ pos >= Len(source)
    /\ tokens' = Append(tokens, EofToken(line))
    /\ scanResult' = tokens'
    /\ scanState' = "returned"
    /\ UNCHANGED <<source, pos, line, scanError>>

\* scan_source as a function: the state after the whole run from (p, ln, toks)
RECURSIVE ScanFrom(_, _, _, _)
ScanFrom(src, p, ln, toks) ==
    IF p >= Len(src)
    THEN [state |-> "returned", error |-> "None",
          result |-> Append(toks, EofToken(ln))]
    ELSE LET m == FirstMatch(src, p) IN
         IF m.kind = "None"
         THEN [state |-> "raised", error |-> ScanErrorClass, result |-> <<>>]
         ELSE LET ln2 == LineAfter(src, p, m.end, ln) IN
              ScanFrom(src, m.end, ln2, toks \o Emitted(m.kind, src, p, m.end, ln2))

scan_source(src) == ScanFrom(src, 0, 1, <<>>)

\* the source texts of the scanner's specification
Alphabet == {" ", "\n", "/", "\"", "\\", "=", "!", "<", "1", ".", "a", "@"}

RECURSIVE SeqsUpTo(_, _)
SeqsUpTo(S, n) ==
    IF n = 0 THEN {<<>>}
    ELSE LET shorter == SeqsUpTo(S, n - 1) IN
         shorter \cup {Append(s, c) : s \in {t \in shorter : Len(t) = n - 1}, c \in S}

\* 'T x = 5; IF (x > 3) { OUTPUT(x); }' with the code's reserved words
ScenarioSource ==
    <<"d", "7", "k", "r", "q", "m", " ", "x", " ", "=", " ", "5", ";", " ",
      "d", "7", "k", "l", "o", " ", "(", "x", " ", ">", " ", "3", ")", " ",
      "{", " ",
      "d", "7", "k", "t", "b", "a", "3", "a", "(", "x", ")", ";", " ", "}">>

\* the characters of the relational operators, of = and of the comment
OperatorChars == {"<", ">", "=", "!", "/"}

ScanSources ==
    SeqsUpTo(Alphabet, MaxLen) \cup SeqsUpTo(OperatorChars, MaxLen)
    \cup {ScenarioSource}

(***************************************************************************)
(* PARSER                                                                  *)
(*                                                                         *)
(* A parser method is an operator on the token list and a parser record    *)
(* [pos, adv, err, val]: pos is self.pos, adv the positions advance() has  *)
(* consumed so far, err the message of the ParserError raised ("None"      *)
(* while none was) and val the value the method returned.  A method that   *)
(* is handed a failed record is never run: the exception propagates.       *)
(***************************************************************************)
NoErr == "None"

NoneTok == [type |-> "None", lexeme |-> "", line |-> 0]

\* self.tokens[self.pos] past the end of the list raises IndexError
IndexErrorTok == [type |-> "IndexError", lexeme |-> "", line |-> 0]

ASTNode(node_type, value, children) ==
    [node_type |-> node_type, value |-> value, children |-> children]

NoNode == ASTNode("None", "None", <<>>)

Failed(r) == r.err # NoErr

Raise(s, msg) == [s EXCEPT !.err = msg, !.val = NoNode]

Return(s, v) == [s EXCEPT !.val = v]

current(toks, s) ==
    IF s.pos < Len(toks) THEN toks[s.pos + 1] ELSE IndexErrorTok

peek(toks, s) ==
    LET idx == s.pos + 1 IN
    IF idx < Len(toks) THEN toks[idx + 1]
    ELSE Token("EOF", "EOF", current(toks, s).line)

advance(toks, s) ==
    [s EXCEPT !.val = current(toks, s),
              !.adv = Append(@, s.pos),
              !.pos = IF s.pos < Len(toks) THEN s.pos + 1 ELSE s.pos]

match_lexeme_AnyToken(toks, s, lexeme) == advance(toks, s)

match_lexeme(toks, s, lexeme) ==
    IF current(toks, s).lexeme = lexeme THEN advance(toks, s)
    ELSE Raise(s, "Expected '" \o lexeme \o "'")

match_type(toks, s, t) ==
    IF current(toks, s).type = t THEN advance(toks, s)
    ELSE Raise(s, "Expected type " \o t)

accept_lexeme(toks, s, lexeme) ==
    IF current(toks, s).lexeme = lexeme THEN advance(toks, s)
    ELSE Return(s, NoneTok)

\* the one element of a singleton set: Val({e(r) : r \in {x}}) reads
\* "r = x; e(r)", and a method's statements are bound from its last line upwards
Val(S) == CHOOSE v \in S : TRUE

RECURSIVE expr(_, _)
RECURSIVE block(_, _)

\* while self.accept_lexeme(","): args.append(self.expr())
RECURSIVE args_loop(_, _, _)
args_loop(toks, s, args) ==
    Val({ IF a.val = NoneTok THEN Return(a, args) ELSE
          Val({ IF Failed(e) THEN e ELSE args_loop(toks, e, Append(args, e.val))
          : e \in {expr(toks, a)} })
    : a \in {accept_lexeme(toks, s, ",")} })

\* the arguments of a call: empty before ')', else Expr { ',' Expr }
call_args(toks, s) ==
    IF current(toks, s).lexeme # ")"
    THEN Val({ IF Failed(e) THEN e ELSE args_loop(toks, e, <<e.val>>)
         : e \in {expr(toks, s)} })
    ELSE Return(s, <<>>)

\* the call branch of primary
call_expr(toks, s) ==
    Val({ 
    Val({ IF Failed(r2) THEN r2 ELSE
    Val({ IF Failed(args) THEN args ELSE
    Val({ IF Failed(r3) THEN r3 ELSE
          Return(r3, ASTNode("Call", r1.val.lexeme, args.val))
    : r3 \in {match_lexeme(toks, args, ")")} })
    : args \in {call_args(toks, r2)} })
    : r2 \in {match_lexeme(toks, r1, "(")} })
    : r1 \in {advance(toks, s)} })

\* the '(' Expr ')' branch of primary
paren_expr(toks, s) ==
    Val({ 
    Val({ IF Failed(node) THEN node ELSE
    Val({ IF Failed(r2) THEN r2 ELSE
          Return(r2, node.val)
    : r2 \in {match_lexeme(toks, node, ")")} })
    : node \in {expr(toks, r1)} })
    : r1 \in {advance(toks, s)} })

primary(toks, s) ==
    Val({ IF tok.type = "NUMBER"
          THEN Return(advance(toks, s), ASTNode("NumberLiteral", tok.lexeme, <<>>))
          ELSE IF tok.type = "STRING"
          THEN Return(advance(toks, s), ASTNode("StringLiteral", tok.lexeme, <<>>))
          ELSE IF tok.type = "BOOL"
          THEN Return(advance(toks, s), ASTNode("BoolLiteral", tok.lexeme, <<>>))
          ELSE IF tok.type = "IDENT"
          THEN IF peek(toks, s).lexeme = "("
               THEN call_expr(toks, s)
               ELSE Return(advance(toks, s), ASTNode("Identifier", tok.lexeme, <<>>))
          ELSE IF tok.lexeme = "(" THEN paren_expr(toks, s)
          ELSE Raise(s, "Unexpected token in expression")
    : tok \in {current(toks, s)} })

\* the while loop of mul; s.val is the node built so far
RECURSIVE mul_loop(_, _)
mul_loop(toks, s) ==
    IF current(toks, s).lexeme \in {"*", "/"}
    THEN Val({ Val({ IF Failed(right) THEN right ELSE
               Val({ mul_loop(toks, node)
               : node \in {Return(right, ASTNode("BinaryOp", a.val.lexeme,
                                                <<s.val, right.val>>))} })
         : right \in {primary(toks, a)} })
         : a \in {advance(toks, s)} })
    ELSE s

\* a mul that takes one operator at most (if in place of while)
mul_SingleOperator(toks, s) ==
    Val({ IF Failed(node) THEN node
          ELSE IF current(toks, node).lexeme \in {"*", "/"}
          THEN Val({ Val({ IF Failed(right) THEN right
                           ELSE Return(right, ASTNode("BinaryOp", a.val.lexeme,
                                                      <<node.val, right.val>>))
                     : right \in {primary(toks, a)} })
               : a \in {advance(toks, node)} })
          ELSE node
    : node \in {primary(toks, s)} })

\* Primary { (* | /) Primary }
mul(toks, s) ==
    Val({ IF Failed(node) THEN node ELSE mul_loop(toks, node)
    : node \in {primary(toks, s)} })

\* the while loop of add
RECURSIVE add_loop(_, _)
add_loop(toks, s) ==
    IF current(toks, s).lexeme \in {"+", "-"}
    THEN Val({ Val({ IF Failed(right) THEN right ELSE
               Val({ add_loop(toks, node)
               : node \in {Return(right, ASTNode("BinaryOp", a.val.lexeme,
                                                <<s.val, right.val>>))} })
         : right \in {mul(toks, a)} })
         : a \in {advance(toks, s)} })
    ELSE s

\* Mul { (+ | -) Mul }
add(toks, s) ==
    Val({ IF Failed(node) THEN node ELSE add_loop(toks, node)
    : node \in {mul(toks, s)} })

\* the while loop of relational
RECURSIVE relational_loop(_, _)
relational_loop(toks, s) ==
    IF current(toks, s).type = "RELOP"
       /\ current(toks, s).lexeme \in {"<", ">", "<=", ">="}
    THEN Val({ Val({ IF Failed(right) THEN right ELSE
               Val({ relational_loop(toks, node)
               : node \in {Return(right, ASTNode("BinaryOp", a.val.lexeme,
                                                <<s.val, right.val>>))} })
         : right \in {add(toks, a)} })
         : a \in {advance(toks, s)} })
    ELSE s

\* Add { (< | > | <= | >=) Add }
relational(toks, s) ==
    Val({ IF Failed(node) THEN node ELSE relational_loop(toks, node)
    : node \in {add(toks, s)} })

\* the while loop of equality
RECURSIVE equality_loop(_, _)
equality_loop(toks, s) ==
    IF current(toks, s).type = "RELOP"
       /\ current(toks, s).lexeme \in {"==", "!="}
    THEN Val({ Val({ IF Failed(right) THEN right ELSE
               Val({ equality_loop(toks, node)
               : node \in {Return(right, ASTNode("BinaryOp", a.val.lexeme,
                                                <<s.val, right.val>>))} })
         : right \in {relational(toks, a)} })
         : a \in {advance(toks, s)} })
    ELSE s

\* Relational { (== | !=) Relational }
equality(toks, s) ==
    Val({ IF Failed(node) THEN node ELSE equality_loop(toks, node)
    : node \in {relational(toks, s)} })

expr(toks, s) == equality(toks, s)

\* the initialiser of vardecl: the expression after an accepted '='
vardecl_init(toks, s) ==
    IF s.val # NoneTok THEN expr(toks, s) ELSE Return(s, NoNode)

vardecl(toks, s) ==
    Val({ IF Failed(dtype_tok) THEN dtype_tok ELSE
    Val({ IF Failed(ident_tok) THEN ident_tok ELSE
    Val({ 
    Val({ IF Failed(init) THEN init ELSE
    Val({ IF Failed(r) THEN r ELSE
          Return(r, ASTNode("VarDecl", dtype_tok.val.lexeme,
              IF eq.val # NoneTok
              THEN <<ASTNode("Identifier", ident_tok.val.lexeme, <<>>), init.val>>
              ELSE <<ASTNode("Identifier", ident_tok.val.lexeme, <<>>)>>))
    : r \in {match_lexeme(toks, init, ";")} })
    : init \in {vardecl_init(toks, eq)} })
    : eq \in {accept_lexeme(toks, ident_tok, "=")} })
    : ident_tok \in {match_type(toks, dtype_tok, "IDENT")} })
    : dtype_tok \in {match_type(toks, s, "DATATYPE")} })

assignment_stmt_no_semicolon(toks, s) ==
    Val({ IF Failed(ident_tok) THEN ident_tok ELSE
    Val({ IF Failed(r1) THEN r1 ELSE
    Val({ IF Failed(e) THEN e ELSE
          Return(e, ASTNode("Assign", "None",
              <<ASTNode("Identifier", ident_tok.val.lexeme, <<>>), e.val>>))
    : e \in {expr(toks, r1)} })
    : r1 \in {match_lexeme(toks, ident_tok, "=")} })
    : ident_tok \in {match_type(toks, s, "IDENT")} })

\* a call followed by a semicolon, as a statement
call_stmt(toks, s) ==
    Val({ IF Failed(c) THEN c ELSE
    Val({ IF Failed(r) THEN r ELSE
          Return(r, c.val)
    : r \in {match_lexeme(toks, c, ";")} })
    : c \in {call_expr(toks, s)} })

\* a statement that starts with an identifier is taken as a call when '('
\* follows, as an assignment otherwise
assignment_stmt_OrCall(toks, s) ==
    IF peek(toks, s).lexeme = "(" THEN call_stmt(toks, s)
    ELSE Val({ IF Failed(a) THEN a ELSE
               Val({ IF Failed(r) THEN r ELSE Return(r, a.val)
               : r \in {match_lexeme(toks, a, ";")} })
         : a \in {assignment_stmt_no_semicolon(toks, s)} })

assignment_stmt(toks, s) ==
    Val({ IF Failed(ident_tok) THEN ident_tok ELSE
    Val({ IF Failed(r1) THEN r1 ELSE
    Val({ IF Failed(e) THEN e ELSE
    Val({ IF Failed(r2) THEN r2 ELSE
          Return(r2, ASTNode("Assign", "None",
              <<ASTNode("Identifier", ident_tok.val.lexeme, <<>>), e.val>>))
    : r2 \in {match_lexeme(toks, e, ";")} })
    : e \in {expr(toks, r1)} })
    : r1 \in {match_lexeme(toks, ident_tok, "=")} })
    : ident_tok \in {match_type(toks, s, "IDENT")} })

\* the else part of if_stmt; s.val holds the condition and the then block
else_part(toks, s) ==
    IF current(toks, s).lexeme = "d7k8er"
    THEN Val({ IF Failed(else_block) THEN else_block
               ELSE Return(else_block,
                           ASTNode("If", "None", Append(s.val, else_block.val)))
         : else_block \in {block(toks, advance(toks, s))} })
    ELSE Return(s, ASTNode("If", "None", s.val))

if_stmt(toks, s) ==
    Val({ IF Failed(r1) THEN r1 ELSE
    Val({ IF Failed(r2) THEN r2 ELSE
    Val({ IF Failed(cond) THEN cond ELSE
    Val({ IF Failed(r3) THEN r3 ELSE
    Val({ IF Failed(then_block) THEN then_block ELSE
          else_part(toks, Return(then_block, <<cond.val, then_block.val>>))
    : then_block \in {block(toks, r3)} })
    : r3 \in {match_lexeme(toks, cond, ")")} })
    : cond \in {expr(toks, r2)} })
    : r2 \in {match_lexeme(toks, r1, "(")} })
    : r1 \in {match_lexeme(toks, s, "d7klo")} })

while_stmt(toks, s) ==
    Val({ IF Failed(r1) THEN r1 ELSE
    Val({ IF Failed(r2) THEN r2 ELSE
    Val({ IF Failed(cond) THEN cond ELSE
    Val({ IF Failed(r3) THEN r3 ELSE
    Val({ IF Failed(body) THEN body ELSE
          Return(body, ASTNode("While", "None", <<cond.val, body.val>>))
    : body \in {block(toks, r3)} })
    : r3 \in {match_lexeme(toks, cond, ")")} })
    : cond \in {expr(toks, r2)} })
    : r2 \in {match_lexeme(toks, r1, "(")} })
    : r1 \in {match_lexeme(toks, s, "d7kdw5ny")} })

for_stmt(toks, s) ==
    Val({ IF Failed(r1) THEN r1 ELSE
    Val({ IF Failed(r2) THEN r2 ELSE
    Val({ IF Failed(init) THEN init ELSE
    Val({ IF Failed(r3) THEN r3 ELSE
    Val({ IF Failed(cond) THEN cond ELSE
    Val({ IF Failed(r4) THEN r4 ELSE
    Val({ IF Failed(update) THEN update ELSE
    Val({ IF Failed(r5) THEN r5 ELSE
    Val({ IF Failed(body) THEN body ELSE
          Return(body, ASTNode("For", "None",
              <<init.val, cond.val, update.val, body.val>>))
    : body \in {block(toks, r5)} })
    : r5 \in {match_lexeme(toks, update, ")")} })
    : update \in {assignment_stmt_no_semicolon(toks, r4)} })
    : r4 \in {match_lexeme(toks, cond, ";")} })
    : cond \in {expr(toks, r3)} })
    : r3 \in {match_lexeme(toks, init, ";")} })
    : init \in {assignment_stmt_no_semicolon(toks, r2)} })
    : r2 \in {match_lexeme(toks, r1, "(")} })
    : r1 \in {match_lexeme(toks, s, "d7klf")} })

output_stmt(toks, s) ==
    Val({ IF Failed(r1) THEN r1 ELSE
    Val({ IF Failed(r2) THEN r2 ELSE
    Val({ IF Failed(e) THEN e ELSE
    Val({ IF Failed(r3) THEN r3 ELSE
    Val({ IF Failed(r4) THEN r4 ELSE
          Return(r4, ASTNode("Output", "None", <<e.val>>))
    : r4 \in {match_lexeme(toks, r3, ";")} })
    : r3 \in {match_lexeme(toks, e, ")")} })
    : e \in {expr(toks, r2)} })
    : r2 \in {match_lexeme(toks, r1, "(")} })
    : r1 \in {match_lexeme(toks, s, "d7ktba3a")} })

input_stmt(toks, s) ==
    Val({ IF Failed(r1) THEN r1 ELSE
    Val({ IF Failed(r2) THEN r2 ELSE
    Val({ IF Failed(ident_tok) THEN ident_tok ELSE
    Val({ IF Failed(r3) THEN r3 ELSE
    Val({ IF Failed(r4) THEN r4 ELSE
          Return(r4, ASTNode("Input", "None",
              <<ASTNode("Identifier", ident_tok.val.lexeme, <<>>)>>))
    : r4 \in {match_lexeme(toks, r3, ";")} })
    : r3 \in {match_lexeme(toks, ident_tok, ")")} })
    : ident_tok \in {match_type(toks, r2, "IDENT")} })
    : r2 \in {match_lexeme(toks, r1, "(")} })
    : r1 \in {match_lexeme(toks, s, "d7ked5al")} })

\* the optional expression of return_stmt: s.val is <<>> without one
return_value(toks, s) ==
    IF current(toks, s).lexeme # ";"
    THEN Val({ IF Failed(e) THEN e ELSE Return(e, <<e.val>>)
         : e \in {expr(toks, s)} })
    ELSE Return(s, <<>>)

return_stmt(toks, s) ==
    Val({ IF Failed(r1) THEN r1 ELSE
    Val({ IF Failed(v) THEN v ELSE
    Val({ IF Failed(r2) THEN r2 ELSE
          Return(r2, ASTNode("Return", "None", v.val))
    : r2 \in {match_lexeme(toks, v, ";")} })
    : v \in {return_value(toks, r1)} })
    : r1 \in {match_lexeme(toks, s, "d7krg3")} })

statement(toks, s) ==
    Val({ IF tok.type = "DATATYPE" THEN vardecl(toks, s)
          ELSE IF tok.type = "IDENT" THEN assignment_stmt(toks, s)
          ELSE IF tok.type = "KEYWORD" /\ tok.lexeme = "d7klo" THEN if_stmt(toks, s)
          ELSE IF tok.type = "KEYWORD" /\ tok.lexeme = "d7kdw5ny" THEN while_stmt(toks, s)
          ELSE IF tok.type = "KEYWORD" /\ tok.lexeme = "d7klf" THEN for_stmt(toks, s)
          ELSE IF tok.type = "KEYWORD" /\ tok.lexeme = "d7ktba3a" THEN output_stmt(toks, s)
          ELSE IF tok.type = "KEYWORD" /\ tok.lexeme = "d7ked5al" THEN input_stmt(toks, s)
          ELSE IF tok.type = "KEYWORD" /\ tok.lexeme = "d7krg3" THEN return_stmt(toks, s)
          ELSE Raise(s, "Unexpected statement start")
    : tok \in {current(toks, s)} })

\* the loop condition of statement_list
MoreStatements(toks, s) ==
    current(toks, s).type # "EOF" /\ current(toks, s).lexeme # "}"

\* the loop of statement_list; stmts are the children added so far
RECURSIVE statement_loop(_, _, _)
statement_loop(toks, s, stmts) ==
    IF MoreStatements(toks, s)
    THEN Val({ IF Failed(stmt) THEN stmt
               ELSE statement_loop(toks, stmt, Append(stmts, stmt.val))
         : stmt \in {statement(toks, s)} })
    ELSE Return(s, ASTNode("StatementList", "None", stmts))

statement_list(toks, s) == statement_loop(toks, s, <<>>)

block(toks, s) ==
    Val({ IF Failed(r1) THEN r1 ELSE
    Val({ IF Failed(stmts) THEN stmts ELSE
    Val({ IF Failed(r2) THEN r2 ELSE
          Return(r2, ASTNode("Block", "None", stmts.val.children))
    : r2 \in {match_lexeme(toks, stmts, "}")} })
    : stmts \in {statement_list(toks, r1)} })
    : r1 \in {match_lexeme(toks, s, "{")} })

param(toks, s) ==
    Val({ IF Failed(dtype_tok) THEN dtype_tok ELSE
    Val({ IF Failed(ident_tok) THEN ident_tok ELSE
          Return(ident_tok, ASTNode("Param", "None",
              <<ASTNode("Type", dtype_tok.val.lexeme, <<>>),
                ASTNode("Identifier", ident_tok.val.lexeme, <<>>)>>))
    : ident_tok \in {match_type(toks, dtype_tok, "IDENT")} })
    : dtype_tok \in {match_type(toks, s, "DATATYPE")} })

\* while self.accept_lexeme(","): params.append(self.param())
RECURSIVE params_loop(_, _, _)
params_loop(toks, s, params) ==
    Val({ IF a.val = NoneTok THEN Return(a, params) ELSE
          Val({ IF Failed(q) THEN q ELSE params_loop(toks, q, Append(params, q.val))
          : q \in {param(toks, a)} })
    : a \in {accept_lexeme(toks, s, ",")} })

\* the parameters of function_decl: empty before ')', else Param { ',' Param }
param_list(toks, s) ==
    IF current(toks, s).lexeme # ")"
    THEN Val({ IF Failed(q) THEN q ELSE params_loop(toks, q, <<q.val>>)
         : q \in {param(toks, s)} })
    ELSE Return(s, <<>>)

\* a function_decl that returns without a declaration, and without raising,
\* where no type opens it
function_decl_SkipsUntyped(toks, s) ==
    IF current(toks, s).type # "DATATYPE" THEN Return(s, NoNode) ELSE
    Val({ IF Failed(ret_type_tok) THEN ret_type_tok ELSE
    Val({ IF Failed(name_tok) THEN name_tok ELSE
    Val({ IF Failed(r1) THEN r1 ELSE
    Val({ IF Failed(params) THEN params ELSE
    Val({ IF Failed(r2) THEN r2 ELSE
    Val({ IF Failed(body) THEN body ELSE
          Return(body, ASTNode("FunctionDecl", name_tok.val.lexeme,
              <<ASTNode("ReturnType", ret_type_tok.val.lexeme, <<>>),
                ASTNode("Params", "None", params.val),
                body.val>>))
    : body \in {block(toks, r2)} })
    : r2 \in {match_lexeme(toks, params, ")")} })
    : params \in {param_list(toks, r1)} })
    : r1 \in {match_lexeme(toks, name_tok, "(")} })
    : name_tok \in {match_type(toks, ret_type_tok, "IDENT")} })
    : ret_type_tok \in {match_type(toks, s, "DATATYPE")} })

function_decl(toks, s) ==
    Val({ IF Failed(ret_type_tok) THEN ret_type_tok ELSE
    Val({ IF Failed(name_tok) THEN name_tok ELSE
    Val({ IF Failed(r1) THEN r1 ELSE
    Val({ IF Failed(params) THEN params ELSE
    Val({ IF Failed(r2) THEN r2 ELSE
    Val({ IF Failed(body) THEN body ELSE
          Return(body, ASTNode("FunctionDecl", name_tok.val.lexeme,
              <<ASTNode("ReturnType", ret_type_tok.val.lexeme, <<>>),
                ASTNode("Params", "None", params.val),
                body.val>>))
    : body \in {block(toks, r2)} })
    : r2 \in {match_lexeme(toks, params, ")")} })
    : params \in {param_list(toks, r1)} })
    : r1 \in {match_lexeme(toks, name_tok, "(")} })
    : name_tok \in {match_type(toks, ret_type_tok, "IDENT")} })
    : ret_type_tok \in {match_type(toks, s, "DATATYPE")} })

\* the test of the parse loop and of main_function for the main keyword
IsMainKeyword(tok) == tok.type = "KEYWORD" /\ tok.lexeme = "d7kbdaya"

\* a header that steps back onto the opening brace it has consumed
main_header_Rewinds(toks, s) ==
    Val({ 
    Val({ IF Failed(r2) THEN r2 ELSE
    Val({ IF Failed(r3) THEN r3 ELSE
    Val({ IF Failed(r4) THEN r4 ELSE [r4 EXCEPT !.pos = @ - 1]
    : r4 \in {match_lexeme(toks, r3, "{")} })
    : r3 \in {match_lexeme(toks, r2, ")")} })
    : r2 \in {match_lexeme(toks, r1, "(")} })
    : r1 \in {advance(toks, s)} })

\* d7kbdaya '(' ')' and the opening brace of the block
main_header(toks, s) ==
    Val({ 
    Val({ IF Failed(r2) THEN r2 ELSE
    Val({ IF Failed(r3) THEN r3 ELSE
          match_lexeme(toks, r3, "{")
    : r3 \in {match_lexeme(toks, r2, ")")} })
    : r2 \in {match_lexeme(toks, r1, "(")} })
    : r1 \in {advance(toks, s)} })

\* main_function up to the opening brace of its block
main_open(toks, s) ==
    IF ~IsMainKeyword(current(toks, s))
    THEN Raise(s, "Expected 'd7kbdaya' for main")
    ELSE main_header(toks, s)

\* the end of main's block and of main_function; stmts are the block's statements
main_close(toks, s, stmts) ==
    Val({ IF Failed(r) THEN r
          ELSE Return(r, ASTNode("MainFunc", "d7kbdaya",
                           <<ASTNode("Block", "None", stmts)>>))
    : r \in {match_lexeme(toks, s, "}")} })

main_function(toks, s) ==
    Val({ IF Failed(o) THEN o ELSE
    Val({ IF Failed(stmts) THEN stmts ELSE
          main_close(toks, stmts, stmts.val.children)
    : stmts \in {statement_list(toks, o)} })
    : o \in {main_open(toks, s)} })

\* the while loop of parse; children are the FunctionDecl nodes added so far
RECURSIVE parse_loop(_, _, _)
parse_loop(toks, s, children) ==
    IF IsMainKeyword(current(toks, s)) THEN Return(s, children)
    ELSE IF current(toks, s).type = "EOF"
    THEN Raise(s, "Missing main function 'd7kbdaya'")
    ELSE Val({ IF Failed(f) THEN f
               ELSE parse_loop(toks, f, Append(children, f.val))
         : f \in {function_decl(toks, s)} })

\* a parse that does not look at what follows main
after_main_NoCheck(toks, s, children) ==
    Return(s, ASTNode("Program", "None", children))

\* the check that follows main_function in parse
after_main(toks, s, children) ==
    IF current(toks, s).type # "EOF"
    THEN Raise(s, "Nothing allowed after main")
    ELSE Return(s, ASTNode("Program", "None", children))

\* Parser(tokens): self.pos = 0
NewParser == [pos |-> 0, adv |-> <<>>, err |-> NoErr, val |-> NoNode]

\* Parser(tokens).parse() as a function
parse(toks) ==
    Val({ IF Failed(fs) THEN fs ELSE
    Val({ IF Failed(m) THEN m ELSE
          after_main(toks, m, Append(fs.val, m.val))
    : m \in {main_function(toks, fs)} })
    : fs \in {parse_loop(toks, NewParser, <<>>)} })

\* the parser record of the machine's state
ParserNow == [pos |-> ppos, adv |-> padv, err |-> NoErr, val |-> NoNode]

\* a ParserError leaves parse(): r is the failed record
ParseRaised(r) ==
    /\ parseState' = "raised"
    /\ parseError' = r.err
    /\ ppos' = r.pos
    /\ padv' = r.adv
    /\ UNCHANGED <<ptokens, parsePc, progChildren, mainStmts, parseResult>>

\* one iteration of the while loop of parse: program.add(self.function_decl())
ParseFunctionDecl ==
    /\ parseState = "parsing"
    /\ parsePc = "functions"
    /\ ~IsMainKeyword(current(ptokens, ParserNow))
    /\ current(ptokens, ParserNow).type # "EOF"
    /\ \E r \in {function_decl(ptokens, ParserNow)} :
       IF Failed(r) THEN ParseRaised(r)
       ELSE /\ progChildren' = Append(progChildren, r.val)
            /\ ppos' = r.pos
            /\ padv' = r.adv
            /\ UNCHANGED <<ptokens, parsePc, mainStmts, parseState, parseError,
                           parseResult>>

\* the iteration of the while loop of parse that finds EOF
ParseMissingMain ==
    /\ parseState = "parsing"
    /\ parsePc = "functions"
    /\ ~IsMainKeyword(current(ptokens, ParserNow))
    /\ current(ptokens, ParserNow).type = "EOF"
    /\ ParseRaised(Raise(ParserNow, "Missing main function 'd7kbdaya'"))

\* the loop of parse ends at the main keyword: main_function, up to the
\* opening brace of its block
ParseMainOpen ==
    /\ parseState = "parsing"
    /\ parsePc = "functions"
    /\ IsMainKeyword(current(ptokens, ParserNow))
    /\ \E r \in {main_open(ptokens, ParserNow)} :
       IF Failed(r) THEN ParseRaised(r)
       ELSE /\ parsePc' = "main_block"
            /\ ppos' = r.pos
            /\ padv' = r.adv
            /\ UNCHANGED <<ptokens, progChildren, mainStmts, parseState,
                           parseError, parseResult>>

\* one iteration of the loop of statement_list in main's block
ParseMainStatement ==
    /\ parseState = "parsing"
    /\ parsePc = "main_block"
    /\ MoreStatements(ptokens, ParserNow)
    /\ \E r \in {statement(ptokens, ParserNow)} :
       IF Failed(r) THEN ParseRaised(r)
       ELSE /\ mainStmts' = Append(mainStmts, r.val)
            /\ ppos' = r.pos
            /\ padv' = r.adv
            /\ UNCHANGED <<ptokens, parsePc, progChildren, parseState,
                           parseError, parseResult>>

\* the loop of statement_list ends: the closing brace, and program.add(main)
ParseMainClose ==
    /\ parseState = "parsing"
    /\ parsePc = "main_block"
    /\ ~MoreStatements(ptokens, ParserNow)
    /\ \E r \in {main_close(ptokens, ParserNow, mainStmts)} :
       IF Failed(r) THEN ParseRaised(r)
       ELSE /\ progChildren' = Append(progChildren, r.val)
            /\ parsePc' = "after_main"
            /\ ppos' = r.pos
            /\ padv' = r.adv
            /\ UNCHANGED <<ptokens, mainStmts, parseState, parseError,
                           parseResult>>

\* the check for EOF after main, and the return of parse
ParseFinish ==
    /\ parseState = "parsing"
    /\ parsePc = "after_main"
    /\ \E r \in {after_main(ptokens, ParserNow, progChildren)} :
       IF Failed(r) THEN ParseRaised(r)
       ELSE /\ parseState' = "returned"
            /\ parseResult' = r.val
            /\ UNCHANGED <<ptokens, ppos, padv, parsePc, progChildren,
                           mainStmts, parseError>>

(***************************************************************************)
(* The token lists handed to the parser.  Each is one the scanner can      *)
(* return: it ends with its only EOF token.                                *)
(***************************************************************************)
Dt(x) == Token("DATATYPE", x, 1)
Id(x) == Token("IDENT", x, 1)
Num(x) == Token("NUMBER", x, 1)
Str(x) == Token("STRING", x, 1)
Bool(x) == Token("BOOL", x, 1)
Kw(x) == Token("KEYWORD", x, 1)
Sym(x) == Token("SYMBOL", x, 1)
Rel(x) == Token("RELOP", x, 1)
Eof == Token("EOF", "EOF", 1)

RECURSIVE Flatten(_)
Flatten(ss) == IF ss = <<>> THEN <<>> ELSE Head(ss) \o Flatten(Tail(ss))

\* d7kbdaya ( ) {
MainOpenToks == <<Kw("d7kbdaya"), Sym("("), Sym(")"), Sym("{")>>

\* d7krqm f ( ) { }
FuncF == <<Dt("d7krqm"), Id("f"), Sym("("), Sym(")"), Sym("{"), Sym("}")>>

\* d7k34ry g ( d7krqm a , d7k34ry b ) { d7krg3 a + b ; }
FuncG == <<Dt("d7k34ry"), Id("g"), Sym("("), Dt("d7krqm"), Id("a"), Sym(","),
           Dt("d7k34ry"), Id("b"), Sym(")"), Sym("{"),
           Kw("d7krg3"), Id("a"), Sym("+"), Id("b"), Sym(";"), Sym("}")>>

\* d7kbdaya ( ) { }
MainEmpty == MainOpenToks \o <<Sym("}")>>

\* programs as sequences of top-level items
ItemAlphabet == {FuncF, FuncG, MainEmpty, <<Sym(";")>>, <<Sym("}")>>}

ShapePrograms ==
    {Flatten(items) \o <<Eof>> : items \in SeqsUpTo(ItemAlphabet, MaxItems)}

\* the tokens a statement can start with: every token type, every keyword,
\* every symbol and relational operator
LeadingTokens ==
    {Dt("d7krqm"), Id("x"), Id("f"), Num("1"), Str("s"), Str("}"), Bool("true")}
    \cup {Kw(k) : k \in KEYWORDS}
    \cup {Sym(c) : c \in SymbolChars}
    \cup {Rel(o) : o \in {"==", "!=", "<=", ">=", "<", ">"}}

TailAlphabet == {Id("x"), Sym("="), Sym(";"), Num("1"), Sym("("), Sym(")")}

\* one statement of every production, written out
StatementSamples ==
    { <<Dt("d7krqm"), Id("x"), Sym("="), Num("1"), Sym("+"), Num("2"), Sym(";")>>,
      <<Kw("d7klo"), Sym("("), Id("x"), Rel("<"), Num("1"), Sym(")"),
        Sym("{"), Id("x"), Sym("="), Num("1"), Sym(";"), Sym("}")>>,
      <<Kw("d7klo"), Sym("("), Bool("true"), Sym(")"), Sym("{"), Sym("}"),
        Kw("d7k8er"), Sym("{"), Kw("d7krg3"), Sym(";"), Sym("}")>>,
      <<Kw("d7kdw5ny"), Sym("("), Bool("true"), Sym(")"), Sym("{"), Sym("}")>>,
      <<Kw("d7klf"), Sym("("), Id("i"), Sym("="), Num("0"), Sym(";"),
        Id("i"), Rel("<"), Num("3"), Sym(";"),
        Id("i"), Sym("="), Id("i"), Sym("+"), Num("1"), Sym(")"),
        Sym("{"), Kw("d7ktba3a"), Sym("("), Id("i"), Sym(")"), Sym(";"), Sym("}")>>,
      <<Kw("d7ktba3a"), Sym("("), Str("s"), Sym(")"), Sym(";")>>,
      <<Kw("d7ked5al"), Sym("("), Id("x"), Sym(")"), Sym(";")>>,
      <<Kw("d7krg3"), Id("x"), Sym(";")>>,
      <<Id("x"), Sym("="), Id("f"), Sym("("), Num("1"), Sym(","), Id("x"),
        Sym(")"), Sym(";")>>,
      <<Id("f"), Sym("("), Num("1"), Sym(","), Id("x"), Sym(")"), Sym(";")>>,
      <<Id("x"), Sym("="), Sym("("), Id("a"), Sym("+"), Id("b"), Sym(")"),
        Sym("*"), Id("c"), Sym(";")>> }

\* main's block holding the statement tokens st
MainWith(st) == MainOpenToks \o st \o <<Sym("}"), Eof>>

StatementPrograms ==
    {MainWith(<<t>> \o tail) :
        t \in LeadingTokens, tail \in SeqsUpTo(TailAlphabet, MaxTail)}
    \cup {MainWith(st) : st \in StatementSamples}
    \cup {MainWith(a \o b) : a \in StatementSamples, b \in StatementSamples}

\* the ten binary operators as tokens
OpToken(op) ==
    IF op \in {"==", "!=", "<", ">", "<=", ">="} THEN Rel(op) ELSE Sym(op)

BinOps == {"==", "!=", "<", ">", "<=", ">=", "+", "-", "*", "/"}

OperandNames == <<"a", "b", "c", "d", "e", "f">>

\* a op1 b op2 c ... for the operators ops
RECURSIVE ChainTokens(_, _)
ChainTokens(ops, i) ==
    IF i > Len(ops) THEN <<Id(OperandNames[i])>>
    ELSE <<Id(OperandNames[i]), OpToken(ops[i])>> \o ChainTokens(ops, i + 1)

\* d7kbdaya ( ) { x = a op1 b op2 c ... ; }
ChainProgram(ops) == MainWith(<<Id("x"), Sym("=")>> \o ChainTokens(ops, 1) \o <<Sym(";")>>)

ChainPrograms == {ChainProgram(ops) : ops \in SeqsUpTo(BinOps, MaxOps)}

\* d7k34ry g ( d7krqm a , d7k34ry b ) { d7krg3 a + b ; }
\* d7kbdaya ( ) {
\*   d7klf ( i = 0 ; i < 3 ; i = i + 1 ) { d7ktba3a ( i ) ; }
\*   d7klo ( true ) { } d7k8er { d7krg3 ; }
\*   d7kdw5ny ( x != 1 ) { d7ked5al ( x ) ; }
\*   d7k34ry y = g ( 1 , ( x - 2 ) * 3 ) / 4 ;
\* }
FullProgram ==
    FuncG \o MainOpenToks
    \o <<Kw("d7klf"), Sym("("), Id("i"), Sym("="), Num("0"), Sym(";"),
          Id("i"), Rel("<"), Num("3"), Sym(";"),
          Id("i"), Sym("="), Id("i"), Sym("+"), Num("1"), Sym(")"),
          Sym("{"), Kw("d7ktba3a"), Sym("("), Id("i"), Sym(")"), Sym(";"), Sym("}")>>
    \o <<Kw("d7klo"), Sym("("), Bool("true"), Sym(")"), Sym("{"), Sym("}"),
          Kw("d7k8er"), Sym("{"), Kw("d7krg3"), Sym(";"), Sym("}")>>
    \o <<Kw("d7kdw5ny"), Sym("("), Id("x"), Rel("!="), Num("1"), Sym(")"), Sym("{"),
          Kw("d7ked5al"), Sym("("), Id("x"), Sym(")"), Sym(";"), Sym("}")>>
    \o <<Dt("d7k34ry"), Id("y"), Sym("="), Id("g"), Sym("("), Num("1"), Sym(","),
          Sym("("), Id("x"), Sym("-"), Num("2"), Sym(")"), Sym("*"), Num("3"),
          Sym(")"), Sym("/"), Num("4"), Sym(";")>>
    \o <<Sym("}")>>

\* the program cut after each of its tokens: the text ends in the middle of
\* every construct
TruncatedPrograms ==
    {SubSeq(FullProgram, 1, n) \o <<Eof>> : n \in 0..Len(FullProgram)}

\* the program with one of its symbols, keywords or relational operators
\* written as a string literal of the same spelling:  ";"  for  ;
StringSpelledPrograms ==
    {[FullProgram EXCEPT ![n] = Str(FullProgram[n].lexeme)] \o <<Eof>> :
        n \in {i \in 1..Len(FullProgram) :
                  FullProgram[i].type \in {"SYMBOL", "KEYWORD", "RELOP"}}}
    \cup {MainOpenToks \o <<Id("x"), Sym("="), Num("1"), Str(";"), Sym("}"), Eof>>}

ParseInputs ==
    ShapePrograms \cup StatementPrograms \cup ChainPrograms \cup TruncatedPrograms
    \cup StringSpelledPrograms

(***************************************************************************)
(* SEMANTIC ANALYZER                                                       *)
(*                                                                         *)
(* A dict is the sequence of its entries in insertion order.  The result   *)
(* of a method is a record: err is the message of the SemanticError it     *)
(* raised, or NoErr, and the other field is what it returned.              *)
(***************************************************************************)
\* self.scopes = [{}]
NewSymbolTable == << <<>> >>

\* name in scope
InDict(dict, name) == \E i \in 1..Len(dict) : dict[i].name = name

\* scope[name]
DictGet(dict, name) == dict[CHOOSE i \in 1..Len(dict) : dict[i].name = name]

\* SymbolTable.push
SymbolTable_push(scps) == Append(scps, <<>>)

\* a pop that leaves the scope on the stack
SymbolTable_pop_Keeps(scps) == scps

\* SymbolTable.pop
SymbolTable_pop(scps) == SubSeq(scps, 1, Len(scps) - 1)

\* a declare that looks for the name in every scope
SymbolTable_declare_AllScopes(scps, name, dtype) ==
    IF \E i \in 1..Len(scps) : InDict(scps[i], name)
    THEN [err |-> "Redeclaration of variable '" \o name \o "' in same scope",
          scopes |-> scps]
    ELSE [err |-> NoErr,
          scopes |-> [scps EXCEPT ![Len(scps)] =
                         Append(@, [name |-> name, dtype |-> dtype])]]

\* a declare that writes into the outermost scope
SymbolTable_declare_Global(scps, name, dtype) ==
    IF InDict(scps[Len(scps)], name)
    THEN [err |-> "Redeclaration of variable '" \o name \o "' in same scope",
          scopes |-> scps]
    ELSE [err |-> NoErr,
          scopes |-> [scps EXCEPT ![1] =
                         Append(@, [name |-> name, dtype |-> dtype])]]

\* SymbolTable.declare
SymbolTable_declare(scps, name, dtype) ==
    IF InDict(scps[Len(scps)], name)
    THEN [err |-> "Redeclaration of variable '" \o name \o "' in same scope",
          scopes |-> scps]
    ELSE [err |-> NoErr,
          scopes |-> [scps EXCEPT ![Len(scps)] =
                         Append(@, [name |-> name, dtype |-> dtype])]]

\* SymbolTable.lookup: for scope in reversed(self.scopes), from index i down
RECURSIVE SymbolTable_lookup_from(_, _, _)
SymbolTable_lookup_from(scps, name, i) ==
    IF i = 0
    THEN [err |-> "Use of undeclared variable '" \o name \o "'", type |-> "None"]
    ELSE IF InDict(scps[i], name)
    THEN [err |-> NoErr, type |-> DictGet(scps[i], name).dtype]
    ELSE SymbolTable_lookup_from(scps, name, i - 1)

SymbolTable_lookup(scps, name) == SymbolTable_lookup_from(scps, name, Len(scps))

\* self.table = {}
NewFunctionTable == <<>>

\* a declare that records nothing
FunctionTable_declare_Forgets(tbl, name, ret_type, param_types) ==
    IF InDict(tbl, name)
    THEN [err |-> "Redefinition of function '" \o name \o "'", table |-> tbl]
    ELSE [err |-> NoErr, table |-> tbl]

\* a declare that takes the parameter types for part of the name
FunctionTable_declare_Overloads(tbl, name, ret_type, param_types) ==
    IF InDict(tbl, name) /\ DictGet(tbl, name).param_types = param_types
    THEN [err |-> "Redefinition of function '" \o name \o "'", table |-> tbl]
    ELSE [err |-> NoErr,
          table |-> Append(tbl, [name |-> name, ret_type |-> ret_type,
                                 param_types |-> param_types])]

\* FunctionTable.declare
FunctionTable_declare(tbl, name, ret_type, param_types) ==
    IF InDict(tbl, name)
    THEN [err |-> "Redefinition of function '" \o name \o "'", table |-> tbl]
    ELSE [err |-> NoErr,
          table |-> Append(tbl, [name |-> name, ret_type |-> ret_type,
                                 param_types |-> param_types])]

\* FunctionTable.lookup
FunctionTable_lookup(tbl, name) ==
    IF ~InDict(tbl, name)
    THEN [err |-> "Call to undeclared function '" \o name \o "'",
          ret_type |-> "None", param_types |-> <<>>]
    ELSE [err |-> NoErr, ret_type |-> DictGet(tbl, name).ret_type,
          param_types |-> DictGet(tbl, name).param_types]

\* the value of an expression visit: a type, or the error raised
Typed(t) == [err |-> NoErr, type |-> t]
SemRaise(msg) == [err |-> msg, type |-> "None"]

\* _check_assign_compat that also lets a decimal into an integer
check_assign_compat_BothWays(var_type, expr_type, context) ==
    IF var_type = expr_type THEN NoErr
    ELSE IF {var_type, expr_type} = {"d7k34ry", "d7krqm"} THEN NoErr
    ELSE "Type mismatch in " \o context \o ": variable is " \o var_type
             \o ", expression is " \o expr_type

\* _check_assign_compat; context is the text the message names
check_assign_compat(var_type, expr_type, context) ==
    IF var_type = expr_type THEN NoErr
    ELSE IF var_type = "d7k34ry" /\ expr_type = "d7krqm" THEN NoErr
    ELSE "Type mismatch in " \o context \o ": variable is " \o var_type
             \o ", expression is " \o expr_type

\* the digit strings of the number lexemes of the analysed programs
DigitStrings == {"0", "1", "2", "3", "4", "5", "6", "7", "8", "9"}

\* the number lexemes with "." in them
DecimalLexemes == {a \o "." \o b : a \in DigitStrings, b \in DigitStrings}

\* visit_NumberLiteral
visit_NumberLiteral(node) ==
    IF node.value \in DecimalLexemes THEN Typed("d7k34ry") ELSE Typed("d7krqm")

\* visit_BinaryOp that gives every arithmetic result the type integer
BinaryOpType_AlwaysInteger(op, left_t, right_t) ==
    IF op \in {"+", "-", "*", "/"}
    THEN IF left_t \notin {"d7krqm", "d7k34ry"} \/ right_t \notin {"d7krqm", "d7k34ry"}
         THEN SemRaise("Operator '" \o op \o "' requires numeric operands, got "
                       \o left_t \o " and " \o right_t)
         ELSE Typed("d7krqm")
    ELSE IF op \in {"<", ">", "<=", ">=", "==", "!="}
    THEN IF left_t # right_t
         THEN SemRaise("Comparison '" \o op \o "' with mismatched types "
                       \o left_t \o " and " \o right_t)
         ELSE Typed("d7kmntq")
    ELSE SemRaise("Unknown binary operator '" \o op \o "'")

\* visit_BinaryOp that lets a comparison mix integer and decimal
BinaryOpType_ComparesNumbers(op, left_t, right_t) ==
    IF op \in {"+", "-", "*", "/"}
    THEN IF left_t \notin {"d7krqm", "d7k34ry"} \/ right_t \notin {"d7krqm", "d7k34ry"}
         THEN SemRaise("Operator '" \o op \o "' requires numeric operands, got "
                       \o left_t \o " and " \o right_t)
         ELSE IF left_t = "d7k34ry" \/ right_t = "d7k34ry" THEN Typed("d7k34ry")
         ELSE Typed("d7krqm")
    ELSE IF op \in {"<", ">", "<=", ">=", "==", "!="}
    THEN IF left_t # right_t /\ {left_t, right_t} # {"d7krqm", "d7k34ry"}
         THEN SemRaise("Comparison '" \o op \o "' with mismatched types "
                       \o left_t \o " and " \o right_t)
         ELSE Typed("d7kmntq")
    ELSE SemRaise("Unknown binary operator '" \o op \o "'")

\* the part of visit_BinaryOp after the operands are visited
BinaryOpType(op, left_t, right_t) ==
    IF op \in {"+", "-", "*", "/"}
    THEN IF left_t \notin {"d7krqm", "d7k34ry"} \/ right_t \notin {"d7krqm", "d7k34ry"}
         THEN SemRaise("Operator '" \o op \o "' requires numeric operands, got "
                       \o left_t \o " and " \o right_t)
         ELSE IF left_t = "d7k34ry" \/ right_t = "d7k34ry" THEN Typed("d7k34ry")
         ELSE Typed("d7krqm")
    ELSE IF op \in {"<", ">", "<=", ">=", "==", "!="}
    THEN IF left_t # right_t
         THEN SemRaise("Comparison '" \o op \o "' with mismatched types "
                       \o left_t \o " and " \o right_t)
         ELSE Typed("d7kmntq")
    ELSE SemRaise("Unknown binary operator '" \o op \o "'")

\* visit(node) for the nodes of an expression, under the scopes scps and the
\* function table tbl
RECURSIVE visit_expr(_, _, _)

\* the loop of visit_Call over zip(args, param_types), from index i
RECURSIVE visit_args(_, _, _, _, _, _)
visit_args(fname, args, param_types, i, scps, tbl) ==
    IF i > Len(args) \/ i > Len(param_types) THEN NoErr
    ELSE Val({ IF t.err # NoErr THEN t.err
               ELSE Val({ IF c # NoErr THEN c
                          ELSE visit_args(fname, args, param_types, i + 1, scps, tbl)
                    : c \in {check_assign_compat(param_types[i], t.type,
                                 "argument of '" \o fname \o "'")} })
         : t \in {visit_expr(args[i], scps, tbl)} })

\* the decimal numerals of the argument counts
CountText == <<"1", "2", "3", "4", "5", "6", "7", "8", "9">>
Numeral(n) == IF n = 0 THEN "0" ELSE CountText[n]

\* visit_Call without the comparison of the two lengths
visit_Call_NoCountCheck(node, scps, tbl) ==
    Val({ IF f.err # NoErr THEN SemRaise(f.err)
          ELSE Val({ IF a # NoErr THEN SemRaise(a) ELSE Typed(f.ret_type)
               : a \in {visit_args(node.value, node.children, f.param_types, 1,
                                   scps, tbl)} })
    : f \in {FunctionTable_lookup(tbl, node.value)} })

\* visit_Call
visit_Call(node, scps, tbl) ==
    Val({ IF f.err # NoErr THEN SemRaise(f.err)
          ELSE IF Len(node.children) # Len(f.param_types)
          THEN SemRaise("Argument count mismatch in call to '" \o node.value
                        \o "': expected " \o Numeral(Len(f.param_types))
                        \o ", got " \o Numeral(Len(node.children)))
          ELSE Val({ IF a # NoErr THEN SemRaise(a) ELSE Typed(f.ret_type)
               : a \in {visit_args(node.value, node.children, f.param_types, 1,
                                   scps, tbl)} })
    : f \in {FunctionTable_lookup(tbl, node.value)} })

visit_BinaryOp(node, scps, tbl) ==
    Val({ IF left_t.err # NoErr THEN left_t
          ELSE Val({ IF right_t.err # NoErr THEN right_t
                     ELSE BinaryOpType(node.value, left_t.type, right_t.type)
               : right_t \in {visit_expr(node.children[2], scps, tbl)} })
    : left_t \in {visit_expr(node.children[1], scps, tbl)} })

\* visit_generic: the children in order; the value is None
RECURSIVE visit_generic(_, _, _, _)
visit_generic(node, i, scps, tbl) ==
    IF i > Len(node.children) THEN Typed("None")
    ELSE Val({ IF t.err # NoErr THEN t ELSE visit_generic(node, i + 1, scps, tbl)
         : t \in {visit_expr(node.children[i], scps, tbl)} })

visit_expr(node, scps, tbl) ==
    IF node.node_type = "Identifier" THEN SymbolTable_lookup(scps, node.value)
    ELSE IF node.node_type = "NumberLiteral" THEN visit_NumberLiteral(node)
    ELSE IF node.node_type = "StringLiteral" THEN Typed("d7kmslsl")
    ELSE IF node.node_type = "BoolLiteral" THEN Typed("d7kmntq")
    ELSE IF node.node_type = "BinaryOp" THEN visit_BinaryOp(node, scps, tbl)
    ELSE IF node.node_type = "Call" THEN visit_Call(node, scps, tbl)
    ELSE visit_generic(node, 1, scps, tbl)

\* self.pending_params: None, or a list of (name, type) pairs
NoneParams == [none |-> TRUE, pairs |-> <<>>]
ParamPairs(pairs) == [none |-> FALSE, pairs |-> pairs]

\* what an active visit_ call has yet to do: visit a node, check the
\* condition of a For, pop the scope of a Block or of a For, or restore the
\* fields that visit_FunctionDecl and visit_MainFunc saved
VisitFrame(node) ==
    [kind |-> "visit", node |-> node, ret |-> "None", pending |-> NoneParams]
ForCondFrame(node) ==
    [kind |-> "for_cond", node |-> node, ret |-> "None", pending |-> NoneParams]
PopFrame(kind) ==
    [kind |-> kind, node |-> NoNode, ret |-> "None", pending |-> NoneParams]
RestoreFrame(old_ret, old_pending) ==
    [kind |-> "restore", node |-> NoNode, ret |-> old_ret, pending |-> old_pending]

VisitFrames(nodes) == [i \in 1..Len(nodes) |-> VisitFrame(nodes[i])]

\* self.visit(node) is about to dispatch to visit_<t>
Visiting(t) ==
    /\ semState = "analyzing"
    /\ frames # <<>>
    /\ frames[1].kind = "visit"
    /\ frames[1].node.node_type = t

\* a SemanticError leaves analyze()
SemFail(msg) ==
    /\ semState' = "raised"
    /\ semError' = msg
    /\ frames' = <<>>

\* the visit_ call returns
SemContinue(next) ==
    /\ frames' = next \o Tail(frames)
    /\ UNCHANGED <<semState, semError>>

\* visit_Program
VisitProgram ==
    /\ Visiting("Program")
    /\ SemContinue(VisitFrames(frames[1].node.children))
    /\ UNCHANGED <<root, scopes, table, current_return_type, pending_params>>

\* the (name, type) pairs and the types of a Params node
ParamPairsOf(params_node) ==
    [i \in 1..Len(params_node.children) |->
        [name |-> params_node.children[i].children[2].value,
         dtype |-> params_node.children[i].children[1].value]]
ParamTypesOf(params_node) ==
    [i \in 1..Len(params_node.children) |->
        params_node.children[i].children[1].value]

\* a visit_FunctionDecl that asks for a return statement among the
\* statements of the body
VisitFunctionDecl_RequiresReturn ==
    /\ Visiting("FunctionDecl")
    /\ \E node \in {frames[1].node} :
       \E d \in {FunctionTable_declare(table, node.value, node.children[1].value,
                                       ParamTypesOf(node.children[2]))} :
          IF d.err # NoErr
          THEN /\ SemFail(d.err)
               /\ UNCHANGED <<root, scopes, table, current_return_type,
                              pending_params>>
          ELSE IF \A i \in 1..Len(node.children[3].children) :
                     node.children[3].children[i].node_type # "Return"
          THEN /\ SemFail("Missing return in function '" \o node.value \o "'")
               /\ UNCHANGED <<root, scopes, table, current_return_type,
                              pending_params>>
          ELSE /\ table' = d.table
               /\ current_return_type' = node.children[1].value
               /\ pending_params' = ParamPairs(ParamPairsOf(node.children[2]))
               /\ SemContinue(<<VisitFrame(node.children[3]),
                                RestoreFrame(current_return_type, pending_params)>>)
               /\ UNCHANGED <<root, scopes>>

\* visit_FunctionDecl, to the visit of the body
VisitFunctionDecl ==
    /\ Visiting("FunctionDecl")
    /\ \E node \in {frames[1].node} :
       \E d \in {FunctionTable_declare(table, node.value, node.children[1].value,
                                       ParamTypesOf(node.children[2]))} :
          IF d.err # NoErr
          THEN /\ SemFail(d.err)
               /\ UNCHANGED <<root, scopes, table, current_return_type,
                              pending_params>>
          ELSE /\ table' = d.table
               /\ current_return_type' = node.children[1].value
               /\ pending_params' = ParamPairs(ParamPairsOf(node.children[2]))
               /\ SemContinue(<<VisitFrame(node.children[3]),
                                RestoreFrame(current_return_type, pending_params)>>)
               /\ UNCHANGED <<root, scopes>>

\* visit_MainFunc, to the visit of the body
VisitMainFunc ==
    /\ Visiting("MainFunc")
    /\ current_return_type' = "None"
    /\ pending_params' = NoneParams
    /\ SemContinue(<<VisitFrame(frames[1].node.children[1]),
                     RestoreFrame(current_return_type, pending_params)>>)
    /\ UNCHANGED <<root, scopes, table>>

\* a return from visit_FunctionDecl and visit_MainFunc that leaves the two
\* fields as the body had them
ExitFunction_KeepsFields ==
    /\ semState = "analyzing"
    /\ frames # <<>>
    /\ frames[1].kind = "restore"
    /\ SemContinue(<<>>)
    /\ UNCHANGED <<root, scopes, table, current_return_type, pending_params>>

\* visit_FunctionDecl and visit_MainFunc after the body: old_ret, old_pending
ExitFunction ==
    /\ semState = "analyzing"
    /\ frames # <<>>
    /\ frames[1].kind = "restore"
    /\ current_return_type' = frames[1].ret
    /\ pending_params' = frames[1].pending
    /\ SemContinue(<<>>)
    /\ UNCHANGED <<root, scopes, table>>

\* a loop over the parameters that keeps the first of two of one name
RECURSIVE DeclareParams_SkipsDuplicates(_, _, _)
DeclareParams_SkipsDuplicates(scps, pairs, i) ==
    IF i > Len(pairs) THEN [err |-> NoErr, scopes |-> scps]
    ELSE IF InDict(scps[Len(scps)], pairs[i].name)
    THEN DeclareParams_SkipsDuplicates(scps, pairs, i + 1)
    ELSE DeclareParams_SkipsDuplicates(
             SymbolTable_declare(scps, pairs[i].name, pairs[i].dtype).scopes,
             pairs, i + 1)

\* the loop of visit_Block over self.pending_params, from index i
RECURSIVE DeclareParams(_, _, _)
DeclareParams(scps, pairs, i) ==
    IF i > Len(pairs) THEN [err |-> NoErr, scopes |-> scps]
    ELSE Val({ IF d.err # NoErr THEN d ELSE DeclareParams(d.scopes, pairs, i + 1)
         : d \in {SymbolTable_declare(scps, pairs[i].name, pairs[i].dtype)} })

\* if self.pending_params: a list that is neither None nor empty
Truthy(pending) == ~pending.none /\ pending.pairs # <<>>

\* visit_Block, to the visit of the statements
VisitBlock ==
    /\ Visiting("Block")
    /\ \E d \in {IF Truthy(pending_params)
                 THEN DeclareParams(SymbolTable_push(scopes), pending_params.pairs, 1)
                 ELSE [err |-> NoErr, scopes |-> SymbolTable_push(scopes)]} :
          /\ scopes' = d.scopes
          /\ IF d.err # NoErr
             THEN SemFail(d.err) /\ UNCHANGED pending_params
             ELSE /\ pending_params' =
                        IF Truthy(pending_params) THEN NoneParams ELSE pending_params
                  /\ SemContinue(VisitFrames(frames[1].node.children)
                                 \o <<PopFrame("pop_block")>>)
    /\ UNCHANGED <<root, table, current_return_type>>

\* visit_Block after the statements: self.symbols.pop()
ExitBlock ==
    /\ semState = "analyzing"
    /\ frames # <<>>
    /\ frames[1].kind = "pop_block"
    /\ scopes' = SymbolTable_pop(scopes)
    /\ SemContinue(<<>>)
    /\ UNCHANGED <<root, table, current_return_type, pending_params>>

\* the outcome of a statement visit that pushes no frame: msg or NoErr
SemOutcome(msg) ==
    IF msg # NoErr THEN SemFail(msg) ELSE SemContinue(<<>>)

\* visit_VarDecl
\* a visit_VarDecl that type-checks the initialiser before it declares the
\* name
VisitVarDecl_InitialiserFirst ==
    /\ Visiting("VarDecl")
    /\ \E node \in {frames[1].node} :
       \E expr_type \in {IF Len(node.children) = 2
                         THEN visit_expr(node.children[2], scopes, table)
                         ELSE [err |-> NoErr, type |-> node.value]} :
          IF expr_type.err # NoErr
          THEN SemFail(expr_type.err) /\ UNCHANGED scopes
          ELSE \E d \in {SymbolTable_declare(scopes, node.children[1].value,
                                             node.value)} :
                  /\ scopes' = d.scopes
                  /\ IF d.err # NoErr THEN SemFail(d.err)
                     ELSE SemOutcome(check_assign_compat(node.value, expr_type.type,
                              "initialization of '" \o node.children[1].value \o "'"))
    /\ UNCHANGED <<root, table, current_return_type, pending_params>>

VisitVarDecl ==
    /\ Visiting("VarDecl")
    /\ \E node \in {frames[1].node} :
       \E d \in {SymbolTable_declare(scopes, node.children[1].value, node.value)} :
          /\ scopes' = d.scopes
          /\ IF d.err # NoErr THEN SemFail(d.err)
             ELSE IF Len(node.children) = 2
             THEN \E expr_type \in {visit_expr(node.children[2], d.scopes, table)} :
                     IF expr_type.err # NoErr THEN SemFail(expr_type.err)
                     ELSE SemOutcome(check_assign_compat(node.value, expr_type.type,
                              "initialization of '" \o node.children[1].value \o "'"))
             ELSE SemContinue(<<>>)
    /\ UNCHANGED <<root, table, current_return_type, pending_params>>

\* visit_Assign
VisitAssign ==
    /\ Visiting("Assign")
    /\ \E node \in {frames[1].node} :
       \E var_type \in {SymbolTable_lookup(scopes, node.children[1].value)} :
          IF var_type.err # NoErr THEN SemFail(var_type.err)
          ELSE \E expr_type \in {visit_expr(node.children[2], scopes, table)} :
                  IF expr_type.err # NoErr THEN SemFail(expr_type.err)
                  ELSE SemOutcome(check_assign_compat(var_type.type, expr_type.type,
                           "assignment to '" \o node.children[1].value \o "'"))
    /\ UNCHANGED <<root, scopes, table, current_return_type, pending_params>>

\* the check of a condition that takes a number for a truth value
CondCheck_AcceptsNumbers(cond, what) ==
    Val({ IF cond_type.err # NoErr THEN cond_type.err
          ELSE IF cond_type.type \notin {"d7kmntq", "d7krqm", "d7k34ry"}
          THEN what \o " condition must be bool (d7kmntq), got " \o cond_type.type
          ELSE NoErr
    : cond_type \in {visit_expr(cond, scopes, table)} })

\* the check of a condition: msg or NoErr
CondCheck(cond, what) ==
    Val({ IF cond_type.err # NoErr THEN cond_type.err
          ELSE IF cond_type.type # "d7kmntq"
          THEN what \o " condition must be bool (d7kmntq), got " \o cond_type.type
          ELSE NoErr
    : cond_type \in {visit_expr(cond, scopes, table)} })

\* visit_If, to the visits of its blocks
VisitIf ==
    /\ Visiting("If")
    /\ \E node \in {frames[1].node} :
       \E c \in {CondCheck(node.children[1], "If")} :
          IF c # NoErr THEN SemFail(c)
          ELSE SemContinue(VisitFrames(Tail(node.children)))
    /\ UNCHANGED <<root, scopes, table, current_return_type, pending_params>>

\* visit_While, to the visit of its body
VisitWhile ==
    /\ Visiting("While")
    /\ \E node \in {frames[1].node} :
       \E c \in {CondCheck(node.children[1], "While")} :
          IF c # NoErr THEN SemFail(c)
          ELSE SemContinue(<<VisitFrame(node.children[2])>>)
    /\ UNCHANGED <<root, scopes, table, current_return_type, pending_params>>

\* visit_For, to the visit of init
VisitFor ==
    /\ Visiting("For")
    /\ scopes' = SymbolTable_push(scopes)
    /\ \E node \in {frames[1].node} :
          SemContinue(<<VisitFrame(node.children[1]), ForCondFrame(node.children[2]),
                        VisitFrame(node.children[3]), VisitFrame(node.children[4]),
                        PopFrame("pop_for")>>)
    /\ UNCHANGED <<root, table, current_return_type, pending_params>>

\* visit_For between init and update: the condition
CheckForCond ==
    /\ semState = "analyzing"
    /\ frames # <<>>
    /\ frames[1].kind = "for_cond"
    /\ SemOutcome(CondCheck(frames[1].node, "For"))
    /\ UNCHANGED <<root, scopes, table, current_return_type, pending_params>>

\* visit_For after the body: self.symbols.pop()
ExitFor ==
    /\ semState = "analyzing"
    /\ frames # <<>>
    /\ frames[1].kind = "pop_for"
    /\ scopes' = SymbolTable_pop(scopes)
    /\ SemContinue(<<>>)
    /\ UNCHANGED <<root, table, current_return_type, pending_params>>

\* visit_Output
VisitOutput ==
    /\ Visiting("Output")
    /\ SemOutcome(visit_expr(frames[1].node.children[1], scopes, table).err)
    /\ UNCHANGED <<root, scopes, table, current_return_type, pending_params>>

\* visit_Input
VisitInput ==
    /\ Visiting("Input")
    /\ SemOutcome(SymbolTable_lookup(scopes, frames[1].node.children[1].value).err)
    /\ UNCHANGED <<root, scopes, table, current_return_type, pending_params>>

\* visit_Return that lets main return a value
VisitReturn_MainMayReturn ==
    /\ Visiting("Return")
    /\ \E node \in {frames[1].node} :
          IF node.children = <<>>
          THEN IF current_return_type = "None" THEN SemContinue(<<>>)
               ELSE SemFail("Function must return a value of type " \o current_return_type)
          ELSE \E expr_type \in {visit_expr(node.children[1], scopes, table)} :
                  IF expr_type.err # NoErr THEN SemFail(expr_type.err)
                  ELSE IF current_return_type = "None" THEN SemContinue(<<>>)
                  ELSE SemOutcome(check_assign_compat(current_return_type,
                                      expr_type.type, "return statement"))
    /\ UNCHANGED <<root, scopes, table, current_return_type, pending_params>>

\* visit_Return
VisitReturn ==
    /\ Visiting("Return")
    /\ \E node \in {frames[1].node} :
          IF current_return_type = "None"
          THEN IF node.children # <<>>
               THEN SemFail("Main function 'd7kbdaya' cannot return a value")
               ELSE SemContinue(<<>>)
          ELSE IF node.children = <<>>
          THEN SemFail("Function must return a value of type " \o current_return_type)
          ELSE \E expr_type \in {visit_expr(node.children[1], scopes, table)} :
                  IF expr_type.err # NoErr THEN SemFail(expr_type.err)
                  ELSE SemOutcome(check_assign_compat(current_return_type,
                                      expr_type.type, "return statement"))
    /\ UNCHANGED <<root, scopes, table, current_return_type, pending_params>>

\* analyze() returns
SemFinish ==
    /\ semState = "analyzing"
    /\ frames = <<>>
    /\ semState' = "passed"
    /\ UNCHANGED <<root, scopes, table, current_return_type, pending_params,
                   frames, semError>>

(***************************************************************************)
(* The programs handed to the analyzer: token lists that parse.            *)
(***************************************************************************)
FunctionNames == {"f", "g", "h"}

\* "" stands for no call
Callees == FunctionNames \cup {""}

\* d7krqm name ( ) { d7krg3 callee ( ) ; }   or   ... { d7krg3 1 ; }
CallingFunction(name, callee) ==
    <<Dt("d7krqm"), Id(name), Sym("("), Sym(")"), Sym("{"), Kw("d7krg3")>>
    \o (IF callee = "" THEN <<Num("1")>> ELSE <<Id(callee), Sym("("), Sym(")")>>)
    \o <<Sym(";"), Sym("}")>>

\* d7kbdaya ( ) { d7krqm x = callee ( ) ; }   or   d7kbdaya ( ) { }
CallingMain(callee) ==
    MainOpenToks
    \o (IF callee = "" THEN <<>>
        ELSE <<Dt("d7krqm"), Id("x"), Sym("="), Id(callee), Sym("("), Sym(")"),
               Sym(";")>>)
    \o <<Sym("}"), Eof>>

CallPrograms ==
    {Flatten(fs) \o CallingMain(c) :
        fs \in SeqsUpTo({CallingFunction(n, c) : n \in FunctionNames, c \in Callees},
                        MaxFuncs),
        c \in Callees}

\* d7krqm x ;   d7kmslsl x ;   x = 1 ;   x = "s" ;
SimpleStatements ==
    { <<Dt("d7krqm"), Id("x"), Sym(";")>>,
      <<Dt("d7kmslsl"), Id("x"), Sym(";")>>,
      <<Id("x"), Sym("="), Num("1"), Sym(";")>>,
      <<Id("x"), Sym("="), Str("s"), Sym(";")>> }

\* d7klo ( true ) { body }
IfBlock(body) ==
    <<Kw("d7klo"), Sym("("), Bool("true"), Sym(")"), Sym("{")>> \o body \o <<Sym("}")>>

\* d7kdw5ny ( true ) { d7krqm x ; }
WhileBlock ==
    <<Kw("d7kdw5ny"), Sym("("), Bool("true"), Sym(")"), Sym("{"),
      Dt("d7krqm"), Id("x"), Sym(";"), Sym("}")>>

\* d7klf ( x = 1 ; true ; x = 1 ) { d7kmslsl x ; x = "s" ; }
ForBlock ==
    <<Kw("d7klf"), Sym("("), Id("x"), Sym("="), Num("1"), Sym(";"), Bool("true"),
      Sym(";"), Id("x"), Sym("="), Num("1"), Sym(")"), Sym("{"),
      Dt("d7kmslsl"), Id("x"), Sym(";"), Id("x"), Sym("="), Str("s"), Sym(";"),
      Sym("}")>>

ScopeStatements ==
    SimpleStatements
    \cup {IfBlock(Flatten(ss)) : ss \in SeqsUpTo(SimpleStatements, MaxInner)}
    \cup {WhileBlock, ForBlock}

ScopePrograms ==
    {MainWith(Flatten(ss)) : ss \in SeqsUpTo(ScopeStatements, MaxStmts)}

\* d7k34ry g ( d7krqm a , d7k34ry b ) { d7krg3 a + b ; }
\* d7kbdaya ( ) { d7krqm i ; d7klf ( i = 0 ; i < 3 ; i = i + 1 )
\*   { d7ktba3a ( i ) ; d7klo ( i == 1 ) { d7kmslsl i ; } d7k8er { d7krg3 ; } }
\*   d7ked5al ( i ) ; d7k34ry y = g ( i , 2.5 ) ; }
RichProgram ==
    FuncG \o MainOpenToks
    \o <<Dt("d7krqm"), Id("i"), Sym(";"),
         Kw("d7klf"), Sym("("), Id("i"), Sym("="), Num("0"), Sym(";"),
         Id("i"), Rel("<"), Num("3"), Sym(";"),
         Id("i"), Sym("="), Id("i"), Sym("+"), Num("1"), Sym(")"), Sym("{"),
         Kw("d7ktba3a"), Sym("("), Id("i"), Sym(")"), Sym(";"),
         Kw("d7klo"), Sym("("), Id("i"), Rel("=="), Num("1"), Sym(")"), Sym("{"),
         Dt("d7kmslsl"), Id("i"), Sym(";"), Sym("}"),
         Kw("d7k8er"), Sym("{"), Kw("d7krg3"), Sym(";"), Sym("}"),
         Sym("}"),
         Kw("d7ked5al"), Sym("("), Id("i"), Sym(")"), Sym(";"),
         Dt("d7k34ry"), Id("y"), Sym("="), Id("g"), Sym("("), Id("i"), Sym(","),
         Num("2.5"), Sym(")"), Sym(";"),
         Sym("}"), Eof>>

\* d7krqm f ( d7krqm a ) { body d7krg3 a ; }  d7kbdaya ( ) { }
WithParam(body) ==
    <<Dt("d7krqm"), Id("f"), Sym("("), Dt("d7krqm"), Id("a"), Sym(")"), Sym("{")>>
    \o body \o <<Kw("d7krg3"), Id("a"), Sym(";"), Sym("}")>> \o MainEmpty \o <<Eof>>

SamplePrograms ==
    { RichProgram,
      WithParam(<<>>),
      WithParam(<<Dt("d7krqm"), Id("a"), Sym(";")>>),
      WithParam(IfBlock(<<Dt("d7kmslsl"), Id("a"), Sym(";")>>)),
      MainWith(<<Kw("d7krg3"), Num("1"), Sym(";")>>),
      MainWith(<<Kw("d7klf"), Sym("("), Id("x"), Sym("="), Num("1"), Sym(";"),
                 Num("1"), Sym(";"), Id("x"), Sym("="), Num("1"), Sym(")"),
                 Sym("{"), Sym("}")>>),
      MainWith(<<Dt("d7krqm"), Id("x"), Sym(";")>>
               \o IfBlock(<<Dt("d7kmslsl"), Id("x"), Sym(";")>>
                          \o IfBlock(<<Dt("d7kmntq"), Id("x"), Sym("="),
                                       Bool("true"), Sym(";")>>)
                          \o <<Id("x"), Sym("="), Str("s"), Sym(";")>>)
               \o <<Id("x"), Sym("="), Num("1"), Sym(";")>>) }

\* the literals of the typing programs: 1  2  1.0  "s"  true
Literals == {Num("1"), Num("2"), Num("1.0"), Str("s"), Bool("true")}

\* T v = a op b ;   for every type T, operator op and literals a, b
BinaryOpStatements ==
    {<<Dt(t), Id("v"), Sym("="), a, OpToken(op), b, Sym(";")>> :
        t \in DATATYPES, a \in Literals, op \in BinOps, b \in Literals}

\* the parameters  T1 a , T2 b , ...  of the types ptypes, from the i-th
RECURSIVE ParamTokens(_, _)
ParamTokens(ptypes, i) ==
    IF i > Len(ptypes) THEN <<>>
    ELSE <<Dt(ptypes[i]), Id(OperandNames[i])>>
         \o (IF i < Len(ptypes) THEN <<Sym(",")>> ELSE <<>>)
         \o ParamTokens(ptypes, i + 1)

\* ret name ( T1 a , T2 b , ... ) { body }
FunctionNamed(name, ret, ptypes, body) ==
    <<Dt(ret), Id(name), Sym("(")>> \o ParamTokens(ptypes, 1)
    \o <<Sym(")"), Sym("{")>> \o body \o <<Sym("}")>>

\* ret f ( T1 a , T2 b , ... ) { body }
FunctionWith(ret, ptypes, body) == FunctionNamed("f", ret, ptypes, body)

\* a value stored at each of the four sites, for every slot type T and
\* literal e:
\*   d7kbdaya ( ) { T v = e ; }
\*   d7kbdaya ( ) { T v ; v = e ; }
\*   d7krqm f ( T a ) { } d7kbdaya ( ) { d7ktba3a ( f ( e ) ) ; }
\*   T f ( ) { d7krg3 e ; } d7kbdaya ( ) { }
StoragePrograms ==
    {MainWith(<<Dt(t), Id("v"), Sym("="), e, Sym(";")>>) :
        t \in DATATYPES, e \in Literals}
    \cup {MainWith(<<Dt(t), Id("v"), Sym(";"), Id("v"), Sym("="), e, Sym(";")>>) :
        t \in DATATYPES, e \in Literals}
    \cup {FunctionWith("d7krqm", <<t>>, <<>>)
          \o MainWith(<<Kw("d7ktba3a"), Sym("("), Id("f"), Sym("("), e, Sym(")"),
                        Sym(")"), Sym(";")>>) :
        t \in DATATYPES, e \in Literals}
    \cup {FunctionWith(t, <<>>, <<Kw("d7krg3"), e, Sym(";")>>) \o MainWith(<<>>) :
        t \in DATATYPES, e \in Literals}

\* d7kdw5ny ( true ) { body }
WhileWith(body) ==
    <<Kw("d7kdw5ny"), Sym("("), Bool("true"), Sym(")"), Sym("{")>> \o body \o <<Sym("}")>>

\* d7krqm x ; d7klf ( x = 1 ; true ; x = 1 ) { body }
ForWith(body) ==
    <<Dt("d7krqm"), Id("x"), Sym(";"),
      Kw("d7klf"), Sym("("), Id("x"), Sym("="), Num("1"), Sym(";"), Bool("true"),
      Sym(";"), Id("x"), Sym("="), Num("1"), Sym(")"), Sym("{")>>
    \o body \o <<Sym("}")>>

\* d7klo ( true ) { } d7k8er { body }
ElseWith(body) ==
    IfBlock(<<>>) \o <<Kw("d7k8er"), Sym("{")>> \o body \o <<Sym("}")>>

Nestings == {"plain", "if", "else", "while", "for", "if-while"}

\* the statements body at the nesting n
Nested(n, body) ==
    IF n = "if" THEN IfBlock(body)
    ELSE IF n = "else" THEN ElseWith(body)
    ELSE IF n = "while" THEN WhileWith(body)
    ELSE IF n = "for" THEN ForWith(body)
    ELSE IF n = "if-while" THEN IfBlock(WhileWith(body))
    ELSE body

\* d7krg3 ;   and   d7krg3 e ;   for every literal e
ReturnStatements ==
    {<<Kw("d7krg3"), Sym(";")>>}
    \cup {<<Kw("d7krg3"), e, Sym(";")>> : e \in Literals}

\* a return statement at every nesting, in a function of every return type
\* and in main (alone, or after a function)
ReturnPrograms ==
    {FunctionWith(t, <<>>, Nested(n, r)) \o MainWith(<<>>) :
        t \in DATATYPES, n \in Nestings, r \in ReturnStatements}
    \cup {before \o MainWith(Nested(n, r)) :
        before \in {<<>>, FunctionWith("d7kmntq", <<>>, <<>>)},
        n \in Nestings, r \in ReturnStatements}

\* name ( e1 , e2 , ... )  for the literals args, from the i-th
RECURSIVE ArgTokens(_, _)
ArgTokens(args, i) ==
    IF i > Len(args) THEN <<>>
    ELSE <<args[i]>> \o (IF i < Len(args) THEN <<Sym(",")>> ELSE <<>>)
         \o ArgTokens(args, i + 1)

\* d7kmslsl f ( T1 a , ... ) { }  d7kbdaya ( ) { d7kmslsl v = f ( e1 , ... ) ; }
\* for up to MaxParams parameter types and up to MaxParams literals
ArgumentPrograms ==
    {FunctionWith("d7kmslsl", ptypes, <<>>)
     \o MainWith(<<Dt("d7kmslsl"), Id("v"), Sym("="), Id("f"), Sym("(")>>
                 \o ArgTokens(args, 1) \o <<Sym(")"), Sym(";")>>) :
        ptypes \in SeqsUpTo({"d7krqm", "d7k34ry", "d7kmslsl"}, MaxParams),
        args \in SeqsUpTo({Num("1"), Num("1.0"), Str("s")}, MaxParams)}

\* R f ( ) { }  d7kbdaya ( ) { T v = f ( ) ; }   for every R and T
ResultPrograms ==
    {FunctionWith(r, <<>>, <<>>)
     \o MainWith(<<Dt(t), Id("v"), Sym("="), Id("f"), Sym("("), Sym(")"), Sym(";")>>) :
        r \in DATATYPES, t \in DATATYPES}

\* the conditions of the typing programs: every literal, and
\*   1 < 2    "s" == "s"    1 + 2    1.0 * 2
ConditionSamples ==
    {<<e>> : e \in Literals}
    \cup { <<Num("1"), Rel("<"), Num("2")>>,
           <<Str("s"), Rel("=="), Str("s")>>,
           <<Num("1"), Sym("+"), Num("2")>>,
           <<Num("1.0"), Sym("*"), Num("2")>> }

\* y = 1 ;   with y undeclared
UndeclaredUse == <<Id("y"), Sym("="), Num("1"), Sym(";")>>

\* d7klo ( c ) { body }
\* d7klo ( c ) { } d7k8er { body }
\* d7kdw5ny ( c ) { body }
\* d7krqm x ; d7klf ( x = 1 ; c ; x = 1 ) { body }
ConditionPrograms ==
    {MainWith(<<Kw(k), Sym("(")>> \o c \o <<Sym(")"), Sym("{")>> \o body \o <<Sym("}")>>) :
        k \in {"d7klo", "d7kdw5ny"}, c \in ConditionSamples,
        body \in {<<>>, UndeclaredUse}}
    \cup {MainWith(<<Kw("d7klo"), Sym("(")>> \o c
                   \o <<Sym(")"), Sym("{"), Sym("}"), Kw("d7k8er"), Sym("{")>>
                   \o UndeclaredUse \o <<Sym("}")>>) :
        c \in ConditionSamples}
    \cup {MainWith(<<Dt("d7krqm"), Id("x"), Sym(";"),
                     Kw("d7klf"), Sym("("), Id("x"), Sym("="), Num("1"), Sym(";")>>
                   \o c \o <<Sym(";"), Id("x"), Sym("="), Num("1"), Sym(")"), Sym("{")>>
                   \o body \o <<Sym("}")>>) :
        c \in ConditionSamples, body \in {<<>>, UndeclaredUse}}

\* up to MaxFuncs functions named f or g, returning d7krqm or d7kmslsl, of no
\* parameter or one d7krqm parameter, with empty bodies, before an empty main
RedeclarationPrograms ==
    {Flatten(fs) \o MainWith(<<>>) :
        fs \in SeqsUpTo({FunctionNamed(n, r, p, <<>>) :
                            n \in {"f", "g"}, r \in {"d7krqm", "d7kmslsl"},
                            p \in {<<>>, <<"d7krqm">>}},
                        MaxFuncs)}

TypingPrograms ==
    {MainWith(st) : st \in BinaryOpStatements}
    \cup StoragePrograms
    \cup ReturnPrograms
    \cup ArgumentPrograms \cup ResultPrograms
    \cup ConditionPrograms
    \cup RedeclarationPrograms

\* main(): the analyzer runs on what parse() returned
\* a variable initialised with itself, alone and under an outer variable of
\* the same name and another type; and a redeclaration whose initialiser
\* has the wrong type:
\*   d7kbdaya ( ) { T x = x ; }
\*   d7kbdaya ( ) { U x ; d7klo ( true ) { T x = x ; } }
\*   d7kbdaya ( ) { T x ; T x = e ; }
SelfInitPrograms ==
    {MainWith(<<Dt(t), Id("x"), Sym("="), Id("x"), Sym(";")>>) : t \in DATATYPES}
    \cup {MainWith(<<Dt(u), Id("x"), Sym(";")>>
                   \o IfBlock(<<Dt(t), Id("x"), Sym("="), Id("x"), Sym(";")>>)) :
            t \in DATATYPES, u \in DATATYPES}
    \cup {MainWith(<<Dt(t), Id("x"), Sym(";"), Dt(t), Id("x"), Sym("="), e, Sym(";")>>) :
            t \in DATATYPES, e \in {Num("1"), Str("s")}}

\* d7krqm f ( d7krqm a ) { d7krqm b ; }
FunctionWithLocals ==
    <<Dt("d7krqm"), Id("f"), Sym("("), Dt("d7krqm"), Id("a"), Sym(")"), Sym("{"),
      Dt("d7krqm"), Id("b"), Sym(";"), Sym("}")>>

\* the names of one function used, or declared again, in the functions
\* that follow it:
\*   f  d7kbdaya ( ) { n = 1 ; }
\*   f  d7krqm g ( ) { d7ktba3a ( n ) ; }  d7kbdaya ( ) { }
\*   f  d7krqm g ( d7kmslsl a ) { d7kmslsl b ; }  d7kbdaya ( ) { d7kmntq a ; d7kmntq b ; }
VisibilityPrograms ==
    {FunctionWithLocals \o MainWith(<<Id(n), Sym("="), Num("1"), Sym(";")>>) :
        n \in {"a", "b"}}
    \cup {FunctionWithLocals
          \o FunctionNamed("g", "d7krqm", <<>>,
                           <<Kw("d7ktba3a"), Sym("("), Id(n), Sym(")"), Sym(";")>>)
          \o MainWith(<<>>) : n \in {"a", "b"}}
    \cup {FunctionWithLocals
          \o FunctionNamed("g", "d7krqm", <<"d7kmslsl">>,
                           <<Dt("d7kmslsl"), Id("b"), Sym(";")>>)
          \o MainWith(<<Dt("d7kmntq"), Id("a"), Sym(";"),
                        Dt("d7kmntq"), Id("b"), Sym(";")>>)}

\* T f ( T a , U name ) { body }  with the second parameter named by hand
FunctionWithParams(t, u, name, body) ==
    <<Dt(t), Id("f"), Sym("("), Dt(t), Id("a"), Sym(","), Dt(u), Id(name),
      Sym(")"), Sym("{")>> \o body \o <<Sym("}")>>

\* a parameter name used again: by the second parameter, by a local of the
\* body, by a local of a block nested in the body
\*   T f ( T a , U a ) { }  d7kbdaya ( ) { }
\*   T f ( T a , U b ) { U a ; }  d7kbdaya ( ) { }
\*   T f ( T a , U b ) { d7klo ( true ) { U a ; } }  d7kbdaya ( ) { }
\*   T f ( T a , U b ) { d7kdw5ny ( true ) { U b ; } }  d7kbdaya ( ) { }
ParameterPrograms ==
    {FunctionWithParams(t, u, "a", <<>>) \o MainWith(<<>>) :
        t \in DATATYPES, u \in DATATYPES}
    \cup {FunctionWithParams(t, u, "b", <<Dt(u), Id("a"), Sym(";")>>)
          \o MainWith(<<>>) : t \in DATATYPES, u \in DATATYPES}
    \cup {FunctionWithParams(t, u, "b", IfBlock(<<Dt(u), Id("a"), Sym(";")>>))
          \o MainWith(<<>>) : t \in DATATYPES, u \in DATATYPES}
    \cup {FunctionWithParams(t, u, "b", WhileWith(<<Dt(u), Id("b"), Sym(";")>>))
          \o MainWith(<<>>) : t \in DATATYPES, u \in DATATYPES}

\* a literal of each type
LiteralOf(t) ==
    IF t = "d7krqm" THEN Num("1")
    ELSE IF t = "d7k34ry" THEN Num("1.0")
    ELSE IF t = "d7kmslsl" THEN Str("s")
    ELSE Bool("true")

\* a function that returns on one path only, and one that declares a local
\* and never returns, each called from main:
\*   R f ( ) { d7klo ( true ) { d7krg3 e ; } }  d7kbdaya ( ) { T v = f ( ) ; }
\*   R f ( ) { d7krqm a ; }  d7kbdaya ( ) { T v = f ( ) ; }
PartialReturnPrograms ==
    {FunctionWith(r, <<>>, IF partial
                           THEN IfBlock(<<Kw("d7krg3"), LiteralOf(r), Sym(";")>>)
                           ELSE <<Dt("d7krqm"), Id("a"), Sym(";")>>)
     \o MainWith(<<Dt(t), Id("v"), Sym("="), Id("f"), Sym("("), Sym(")"), Sym(";")>>) :
        r \in DATATYPES, t \in DATATYPES, partial \in BOOLEAN}

\* the programs about declarations, parameters and function frames
FramePrograms ==
    SelfInitPrograms \cup VisibilityPrograms \cup ParameterPrograms
    \cup PartialReturnPrograms

SemInputs ==
    {r.val : r \in {p \in {parse(toks) : toks \in CallPrograms \cup ScopePrograms
                                              \cup SamplePrograms \cup TypingPrograms
                                                     \cup FramePrograms} :
                       ~Failed(p)}}

(***************************************************************************)
(* PIPELINE: main() scans, then parses, then analyzes.                     *)
(***************************************************************************)
\* the characters of the words of the source texts that are longer than one
\* character
Spelling ==
    ("d7krqm" :> <<"d", "7", "k", "r", "q", "m">>) @@
    ("d7k34ry" :> <<"d", "7", "k", "3", "4", "r", "y">>) @@
    ("d7kmslsl" :> <<"d", "7", "k", "m", "s", "l", "s", "l">>) @@
    ("d7kmntq" :> <<"d", "7", "k", "m", "n", "t", "q">>) @@
    ("d7kbdaya" :> <<"d", "7", "k", "b", "d", "a", "y", "a">>) @@
    ("d7klo" :> <<"d", "7", "k", "l", "o">>) @@
    ("d7k8er" :> <<"d", "7", "k", "8", "e", "r">>) @@
    ("d7kdw5ny" :> <<"d", "7", "k", "d", "w", "5", "n", "y">>) @@
    ("d7klf" :> <<"d", "7", "k", "l", "f">>) @@
    ("d7ktba3a" :> <<"d", "7", "k", "t", "b", "a", "3", "a">>) @@
    ("d7ked5al" :> <<"d", "7", "k", "e", "d", "5", "a", "l">>) @@
    ("d7krg3" :> <<"d", "7", "k", "r", "g", "3">>) @@
    ("true" :> <<"t", "r", "u", "e">>) @@
    ("==" :> <<"=", "=">>) @@
    ("2.5" :> <<"2", ".", "5">>)

\* the characters of a word: a word of one character is itself
CharsOf(word) == IF word \in DOMAIN Spelling THEN Spelling[word] ELSE <<word>>

\* the text of the words, one space between two words
RECURSIVE Text(_)
Text(words) ==
    IF words = <<>> THEN <<>>
    ELSE IF Len(words) = 1 THEN CharsOf(words[1])
    ELSE CharsOf(words[1]) \o <<" ">> \o Text(Tail(words))

\* d7k34ry g ( d7krqm a , d7k34ry b ) { d7krg3 a + b ; } d7kbdaya ( ) { d7krqm i ; d7klf ( i = 0 ; i < 3 ; i = i + 1 ) { d7ktba3a ( i ) ; d7klo ( i == 1 ) { d7kmslsl i ; } d7k8er { d7krg3 ; } } d7kdw5ny ( true ) { d7ked5al ( i ) ; } d7k34ry y = g ( i , 2.5 ) ; }
RichSource ==
    Text(<<"d7k34ry", "g", "(", "d7krqm", "a", ",", "d7k34ry", "b", ")", "{",
           "d7krg3", "a", "+", "b", ";", "}", "d7kbdaya", "(", ")", "{",
           "d7krqm", "i", ";", "d7klf", "(", "i", "=", "0", ";", "i", "<",
           "3", ";", "i", "=", "i", "+", "1", ")", "{", "d7ktba3a", "(", "i",
           ")", ";", "d7klo", "(", "i", "==", "1", ")", "{", "d7kmslsl", "i",
           ";", "}", "d7k8er", "{", "d7krg3", ";", "}", "}", "d7kdw5ny", "(",
           "true", ")", "{", "d7ked5al", "(", "i", ")", ";", "}", "d7k34ry",
           "y", "=", "g", "(", "i", ",", "2.5", ")", ";", "}">>)

\* d7kbdaya ( ) { x = @ ; y = 1 }
LexicalErrorSource ==
    Text(<<"d7kbdaya", "(", ")", "{", "x", "=", "@", ";", "y", "=", "1",
           "}">>)

\* d7krqm f ( ) { d7krg3 1 ; }
MissingMainSource ==
    Text(<<"d7krqm", "f", "(", ")", "{", "d7krg3", "1", ";", "}">>)

\* d7kbdaya ( ) { x = 1 d7krqm x ; } }
SyntaxErrorSource ==
    Text(<<"d7kbdaya", "(", ")", "{", "x", "=", "1", "d7krqm", "x", ";", "}",
           "}">>)

\* d7kbdaya ( ) { d7krqm z ; x = 1 ; z = true ; y = 2 ; }
TwoSemanticErrorsSource ==
    Text(<<"d7kbdaya", "(", ")", "{", "d7krqm", "z", ";", "x", "=", "1", ";",
           "z", "=", "true", ";", "y", "=", "2", ";", "}">>)

\* d7kbdaya ( ) { d7klf ( d7krqm i = 0 ; i < 3 ; i = i + 1 ) { } i = 1 ; }
ForHeaderDeclSource ==
    Text(<<"d7kbdaya", "(", ")", "{", "d7klf", "(", "d7krqm", "i", "=", "0",
           ";", "i", "<", "3", ";", "i", "=", "i", "+", "1", ")", "{", "}",
           "i", "=", "1", ";", "}">>)

\* d7kbdaya ( ) { d7klf ( i = 0 ; i < 3 ; i = i + 1 ) { } i = 1 ; }
ForHeaderAssignSource ==
    Text(<<"d7kbdaya", "(", ")", "{", "d7klf", "(", "i", "=", "0", ";", "i",
           "<", "3", ";", "i", "=", "i", "+", "1", ")", "{", "}", "i", "=",
           "1", ";", "}">>)

\* d7kbdaya ( ) { d7krqm i ; d7klf ( i = 0 ; i < 3 ; i = i + 1 ) { } i = 1 ; }
ForOuterVariableSource ==
    Text(<<"d7kbdaya", "(", ")", "{", "d7krqm", "i", ";", "d7klf", "(", "i",
           "=", "0", ";", "i", "<", "3", ";", "i", "=", "i", "+", "1", ")",
           "{", "}", "i", "=", "1", ";", "}">>)

PipelineSources ==
    {RichSource,
     LexicalErrorSource,
     MissingMainSource,
     SyntaxErrorSource,
     TwoSemanticErrorsSource,
     ForHeaderDeclSource,
     ForHeaderAssignSource,
     ForOuterVariableSource}

\* main: parser = Parser(tokens); the scan has returned
StartParser ==
    /\ scanState = "returned"
    /\ parseState = "idle"
    /\ ptokens' = scanResult
    /\ ppos' = NewParser.pos
    /\ padv' = NewParser.adv
    /\ parsePc' = "functions"
    /\ parseState' = "parsing"
    /\ UNCHANGED <<progChildren, mainStmts, parseError, parseResult>>

\* an analyzer that is started whatever the parse came to
StartAnalyzer_AfterAnyParse ==
    /\ parseState \in {"returned", "raised"}
    /\ semState = "idle"
    /\ root' = parseResult
    /\ frames' = <<VisitFrame(parseResult)>>
    /\ semState' = "analyzing"
    /\ UNCHANGED <<scopes, table, current_return_type, pending_params, semError>>

\* main: analyzer = SemanticAnalyzer(ast); analyzer.analyze(); the parse has
\* returned
StartAnalyzer ==
    /\ parseState = "returned"
    /\ semState = "idle"
    /\ root' = parseResult
    /\ frames' = <<VisitFrame(parseResult)>>
    /\ semState' = "analyzing"
    /\ UNCHANGED <<scopes, table, current_return_type, pending_params, semError>>

(***************************************************************************)
(* SPECIFICATIONS                                                          *)
(***************************************************************************)
\* the values of the variables a specification does not use
NotRun == [state |-> "pending", error |-> "None", result |-> <<>>]

ScanIdle ==
    /\ source = <<>>
    /\ pos = 0
    /\ line = 1
    /\ tokens = <<>>
    /\ scanState = "idle"
    /\ scanError = "None"
    /\ scanResult = <<>>

ConcatIdle ==
    /\ fragA = <<>>
    /\ fragB = <<>>
    /\ sep = " "
    /\ outA = NotRun
    /\ outB = NotRun
    /\ outAB = NotRun

ParseIdle ==
    /\ ptokens = <<>>
    /\ ppos = 0
    /\ padv = <<>>
    /\ parsePc = "idle"
    /\ progChildren = <<>>
    /\ mainStmts = <<>>
    /\ parseState = "idle"
    /\ parseError = NoErr
    /\ parseResult = NoNode

SemIdle ==
    /\ root = NoNode
    /\ scopes = NewSymbolTable
    /\ table = NewFunctionTable
    /\ current_return_type = "None"
    /\ pending_params = NoneParams
    /\ frames = <<>>
    /\ semState = "idle"
    /\ semError = NoErr

ScanInit ==
    /\ source \in ScanSources
    /\ pos = 0
    /\ line = 1
    /\ tokens = <<>>
    /\ scanState = "scanning"
    /\ scanError = "None"
    /\ scanResult = <<>>
    /\ ConcatIdle
    /\ ParseIdle
    /\ SemIdle

ScanNext ==
    \/ ScanMatch /\ UNCHANGED <<concatVars, parseVars, semVars>>
    \/ ScanRaise /\ UNCHANGED <<concatVars, parseVars, semVars>>
    \/ ScanReturn /\ UNCHANGED <<concatVars, parseVars, semVars>>

SpecScan == ScanInit /\ [][ScanNext]_vars

(***************************************************************************)
(* The scanner on two fragments and on their concatenation.                *)
(***************************************************************************)
FragAlphabet == {" ", "\n", "/", "a", "\""}

Fragments == SeqsUpTo(FragAlphabet, MaxFrag)

ConcatInit ==
    /\ fragA \in Fragments
    /\ fragB \in Fragments
    /\ sep \in WsChars
    /\ outA = NotRun
    /\ outB = NotRun
    /\ outAB = NotRun
    /\ ScanIdle
    /\ ParseIdle
    /\ SemIdle

ScanFragA ==
    /\ outA = NotRun
    /\ outA' = scan_source(fragA)
    /\ UNCHANGED <<fragA, fragB, sep, outB, outAB>>

ScanFragB ==
    /\ outA # NotRun
    /\ outB = NotRun
    /\ outB' = scan_source(fragB)
    /\ UNCHANGED <<fragA, fragB, sep, outA, outAB>>

ScanJoined ==
    /\ outB # NotRun
    /\ outAB = NotRun
    /\ outAB' = scan_source(fragA \o <<sep>> \o fragB)
    /\ UNCHANGED <<fragA, fragB, sep, outA, outB>>

ConcatNext ==
    \/ ScanFragA /\ UNCHANGED <<scanVars, parseVars, semVars>>
    \/ ScanFragB /\ UNCHANGED <<scanVars, parseVars, semVars>>
    \/ ScanJoined /\ UNCHANGED <<scanVars, parseVars, semVars>>

SpecConcat == ConcatInit /\ [][ConcatNext]_vars

(***************************************************************************)
(* The parser on one token list.                                           *)
(***************************************************************************)
ParseInit ==
    /\ ptokens \in ParseInputs
    /\ ppos = 0
    /\ padv = <<>>
    /\ parsePc = "functions"
    /\ progChildren = <<>>
    /\ mainStmts = <<>>
    /\ parseState = "parsing"
    /\ parseError = NoErr
    /\ parseResult = NoNode
    /\ ScanIdle
    /\ ConcatIdle
    /\ SemIdle

ParseNext ==
    \/ ParseFunctionDecl /\ UNCHANGED <<scanVars, concatVars, semVars>>
    \/ ParseMissingMain /\ UNCHANGED <<scanVars, concatVars, semVars>>
    \/ ParseMainOpen /\ UNCHANGED <<scanVars, concatVars, semVars>>
    \/ ParseMainStatement /\ UNCHANGED <<scanVars, concatVars, semVars>>
    \/ ParseMainClose /\ UNCHANGED <<scanVars, concatVars, semVars>>
    \/ ParseFinish /\ UNCHANGED <<scanVars, concatVars, semVars>>

SpecParse == ParseInit /\ [][ParseNext]_vars

\* parse() runs to its end without waiting for anything: no step of it can
\* be put off for ever
SpecParseFair == SpecParse /\ WF_vars(ParseNext)

(***************************************************************************)
(* The analyzer on one parsed program.                                     *)
(***************************************************************************)
SemInit ==
    /\ root \in SemInputs
    /\ scopes = NewSymbolTable
    /\ table = NewFunctionTable
    /\ current_return_type = "None"
    /\ pending_params = NoneParams
    /\ frames = <<VisitFrame(root)>>
    /\ semState = "analyzing"
    /\ semError = NoErr
    /\ ScanIdle
    /\ ConcatIdle
    /\ ParseIdle

SemNext ==
    \/ VisitProgram /\ UNCHANGED <<scanVars, concatVars, parseVars>>
    \/ VisitFunctionDecl /\ UNCHANGED <<scanVars, concatVars, parseVars>>
    \/ VisitMainFunc /\ UNCHANGED <<scanVars, concatVars, parseVars>>
    \/ ExitFunction /\ UNCHANGED <<scanVars, concatVars, parseVars>>
    \/ VisitBlock /\ UNCHANGED <<scanVars, concatVars, parseVars>>
    \/ ExitBlock /\ UNCHANGED <<scanVars, concatVars, parseVars>>
    \/ VisitVarDecl /\ UNCHANGED <<scanVars, concatVars, parseVars>>
    \/ VisitAssign /\ UNCHANGED <<scanVars, concatVars, parseVars>>
    \/ VisitIf /\ UNCHANGED <<scanVars, concatVars, parseVars>>
    \/ VisitWhile /\ UNCHANGED <<scanVars, concatVars, parseVars>>
    \/ VisitFor /\ UNCHANGED <<scanVars, concatVars, parseVars>>
    \/ CheckForCond /\ UNCHANGED <<scanVars, concatVars, parseVars>>
    \/ ExitFor /\ UNCHANGED <<scanVars, concatVars, parseVars>>
    \/ VisitOutput /\ UNCHANGED <<scanVars, concatVars, parseVars>>
    \/ VisitInput /\ UNCHANGED <<scanVars, concatVars, parseVars>>
    \/ VisitReturn /\ UNCHANGED <<scanVars, concatVars, parseVars>>
    \/ SemFinish /\ UNCHANGED <<scanVars, concatVars, parseVars>>

SpecSem == SemInit /\ [][SemNext]_vars

(***************************************************************************)
(* The whole pipeline on one source text.                                  *)
(***************************************************************************)
PipelineInit ==
    /\ source \in PipelineSources
    /\ pos = 0
    /\ line = 1
    /\ tokens = <<>>
    /\ scanState = "scanning"
    /\ scanError = "None"
    /\ scanResult = <<>>
    /\ ConcatIdle
    /\ ParseIdle
    /\ SemIdle

PipelineNext ==
    \/ ScanNext
    \/ StartParser /\ UNCHANGED <<scanVars, concatVars, semVars>>
    \/ ParseNext
    \/ StartAnalyzer /\ UNCHANGED <<scanVars, concatVars, parseVars>>
    \/ SemNext

SpecPipeline == PipelineInit /\ [][PipelineNext]_vars

(***************************************************************************)
(* PROPERTIES                                                              *)
(***************************************************************************)
\* the (kind, lexeme) pairs of a token sequence
KindsLexemes(toks) == [i \in 1..Len(toks) |-> <<toks[i].type, toks[i].lexeme>>]

Front(s) == SubSeq(s, 1, Len(s) - 1)

\* the kind of the last match of a successful scan ("None" for an empty text)
RECURSIVE LastMatchKindFrom(_, _, _)
LastMatchKindFrom(src, p, last) ==
    IF p >= Len(src) THEN last
    ELSE LET m == FirstMatch(src, p) IN
         IF m.kind = "None" THEN "None"
         ELSE LastMatchKindFrom(src, m.end, m.kind)

EndsInComment(src) == LastMatchKindFrom(src, 0, "None") = "COMMENT"

\* C1: whenever scan_source returns, the returned sequence holds exactly one
\* EOF token, that token is its last element, and the token's line is 1 plus
\* the number of newline characters of the whole source.
C1_ExactlyOneEofLast ==
    scanState = "returned" =>
        /\ Len(scanResult) >= 1
        /\ scanResult[Len(scanResult)].type = "EOF"
        /\ Cardinality({i \in 1..Len(scanResult) : scanResult[i].type = "EOF"}) = 1
        /\ scanResult[Len(scanResult)].line
               = 1 + CountNewlines(source, 0, Len(source))

\* a returned scan of a text with two newlines and a token besides EOF
C1_Witness ==
    /\ scanState = "returned"
    /\ Len(scanResult) >= 2
    /\ CountNewlines(source, 0, Len(source)) = 2

\* C2: a step taken where no pattern matches at the cursor raises the
\* scanner's error class, which is not the parser's error class, and no token
\* sequence is returned (the tokens scanned so far stay local).
C2_NoMatchRaises ==
    [][(scanState = "scanning" /\ pos < Len(source)
           /\ FirstMatch(source, pos).kind = "None")
        => (/\ scanState' = "raised"
            /\ scanError' = "SyntaxError"
            /\ scanError' # ParserErrorClass
            /\ scanResult' = <<>>)]_vars

\* the scanner has raised after it had scanned a token
C2_Witness ==
    /\ scanState = "raised"
    /\ Len(tokens) >= 1
    /\ scanResult = <<>>

\* the conclusion of the concatenation property
ConcatConclusion ==
    /\ outAB.state = "returned"
    /\ KindsLexemes(outAB.result)
          = KindsLexemes(Front(outA.result)) \o KindsLexemes(outB.result)

BothFragmentsScan ==
    /\ outAB # NotRun
    /\ outA.state = "returned"
    /\ outB.state = "returned"

\* C3 as stated: for all fragments A and B that scan, scanning A + one
\* whitespace character + B yields the tokens of A without its EOF followed
\* by the tokens of B, also when A ends with a line comment.
C3_Original == BothFragmentsScan => ConcatConclusion

\* C3 as amended: the same, unless A ends with a line comment and the
\* separating whitespace character is not a newline.
C3_ConcatUnlessOpenComment ==
    (BothFragmentsScan /\ (sep = "\n" \/ ~EndsInComment(fragA)))
        => ConcatConclusion

\* A ends with a line comment, the separator is a newline, B holds a token
C3_Witness ==
    /\ BothFragmentsScan
    /\ EndsInComment(fragA)
    /\ sep = "\n"
    /\ Len(outB.result) >= 2
    /\ ConcatConclusion

\* C4 as stated: the scenario source scans to 15 tokens, EOF included.
C4_Original ==
    (source = ScenarioSource /\ scanState = "returned") => Len(scanResult) = 15

\* C4 as amended: the scenario source scans to 19 tokens, EOF included.
C4_ScenarioTokenCount ==
    (source = ScenarioSource /\ scanState = "returned") => Len(scanResult) = 19

C4_Witness ==
    /\ source = ScenarioSource
    /\ scanState = "returned"
    /\ scanResult[1] = Token("DATATYPE", "d7krqm", 1)

\* the lexemes of the names in the function headers of toks, in token order:
\* an identifier between a datatype and an opening parenthesis
RECURSIVE HeaderNamesFrom(_, _)
HeaderNamesFrom(toks, i) ==
    IF i + 2 > Len(toks) THEN <<>>
    ELSE IF /\ toks[i].type = "DATATYPE"
            /\ toks[i + 1].type = "IDENT"
            /\ toks[i + 2].lexeme = "("
    THEN <<toks[i + 1].lexeme>> \o HeaderNamesFrom(toks, i + 1)
    ELSE HeaderNamesFrom(toks, i + 1)

\* the indices of the main keyword tokens of toks
MainKeywordAt(toks) ==
    {i \in 1..Len(toks) : toks[i].type = "KEYWORD" /\ toks[i].lexeme = "d7kbdaya"}

\* the token the parser of the machine is at
TokenAtCursor == ptokens[ppos + 1]

\* what C5 says of a state of the parser
ProgramShape ==
    /\ parseState = "returned" =>
          LET kids == parseResult.children IN
          /\ parseResult.node_type = "Program"
          /\ Len(kids) >= 1
          /\ kids[Len(kids)].node_type = "MainFunc"
          /\ \A i \in 1..(Len(kids) - 1) : kids[i].node_type = "FunctionDecl"
          /\ [i \in 1..(Len(kids) - 1) |-> kids[i].value]
                = HeaderNamesFrom(ptokens, 1)
          /\ Cardinality(MainKeywordAt(ptokens)) = 1
          /\ TokenAtCursor.type = "EOF"
          /\ ppos + 1 = Len(ptokens)
    /\ (parseState \in {"returned", "raised"} /\ MainKeywordAt(ptokens) = {}) =>
          parseState = "raised"
    /\ (parsePc = "after_main" /\ TokenAtCursor.type # "EOF") =>
          /\ parseState # "returned"
          /\ parseState = "raised" => parseError = "Nothing allowed after main"

\* the top-level loop of the parser is at EOF
EofBeforeMain ==
    /\ parseState = "parsing"
    /\ parsePc = "functions"
    /\ TokenAtCursor.type = "EOF"

\* C5: parse returns only for function declarations, one main function and
\* EOF: the Program node's children are then the FunctionDecl nodes in token
\* order with one MainFunc node last, and the cursor is at EOF; a token other
\* than EOF after main's closing brace raises "Nothing allowed after main",
\* and EOF before the main keyword raises "Missing main function".
C5_ProgramShape ==
    /\ []ProgramShape
    /\ [][EofBeforeMain =>
            /\ parseState' = "raised"
            /\ parseError' = "Missing main function 'd7kbdaya'"]_vars

C5_Witness ==
    /\ parseState = "returned"
    /\ Len(parseResult.children) = 3
    /\ parseResult.children[1].value = "g"
    /\ parseResult.children[2].value = "f"

\* the binding strength of a binary operator: 1 is loosest
Level(op) ==
    IF op \in {"==", "!="} THEN 1
    ELSE IF op \in {"<", ">", "<=", ">="} THEN 2
    ELSE IF op \in {"+", "-"} THEN 3
    ELSE 4

\* the tree of operand lo, ops[lo], ..., ops[hi - 1], operand hi under
\* precedence and left associativity: the root is the rightmost operator of
\* the loosest level
RECURSIVE ExpectedTree(_, _, _)
ExpectedTree(ops, lo, hi) ==
    IF lo = hi THEN ASTNode("Identifier", OperandNames[lo], <<>>)
    ELSE LET loosest == CHOOSE l \in 1..4 :
                 /\ \E j \in lo..(hi - 1) : Level(ops[j]) = l
                 /\ \A j \in lo..(hi - 1) : Level(ops[j]) >= l
             top == CHOOSE j \in lo..(hi - 1) :
                 /\ Level(ops[j]) = loosest
                 /\ \A k \in (j + 1)..(hi - 1) : Level(ops[k]) # loosest
         IN  ASTNode("BinaryOp", ops[top],
                     <<ExpectedTree(ops, lo, top), ExpectedTree(ops, top + 1, hi)>>)

\* the operators of the chain program toks
ChainOps(toks) == [i \in 1..((Len(toks) - 10) \div 2) |-> toks[6 + 2 * i].lexeme]

Bin(op, l, r) == ASTNode("BinaryOp", op, <<l, r>>)
Var(name) == ASTNode("Identifier", name, <<>>)

\* the expression of the assignment that is main's only statement
ChainParsed == mainStmts[1].children[2]

\* C6: the expression of x = a op1 b op2 c ... parses, and its tree is the
\* one of four precedence levels (equality loosest, then relational, then
\* additive, then multiplicative), each left-associative; a + b * c is
\* BinaryOp(+, a, BinaryOp(*, b, c)).
C6_PrecedenceLeftAssoc ==
    ptokens \in ChainPrograms =>
        /\ parseState # "raised"
        /\ Len(mainStmts) <= 1
        /\ Len(mainStmts) = 1 =>
              /\ mainStmts[1].node_type = "Assign"
              /\ ChainParsed = ExpectedTree(ChainOps(ptokens), 1,
                                            Len(ChainOps(ptokens)) + 1)
              /\ \A op1 \in BinOps, op2 \in BinOps :
                    (ChainOps(ptokens) = <<op1, op2>> /\ Level(op1) = Level(op2))
                    => ChainParsed = Bin(op2, Bin(op1, Var("a"), Var("b")), Var("c"))
              /\ ChainOps(ptokens) = <<"+", "*">>
                    => ChainParsed = Bin("+", Var("a"), Bin("*", Var("b"), Var("c")))

C6_Witness ==
    /\ ptokens = ChainProgram(<<"-", "+">>)
    /\ Len(mainStmts) = 1
    /\ ChainParsed = Bin("+", Bin("-", Var("a"), Var("b")), Var("c"))
    /\ parseState = "returned"

\* the statement loop of main's block is about to call statement()
AtStatement ==
    /\ parseState = "parsing"
    /\ parsePc = "main_block"
    /\ TokenAtCursor.type # "EOF"
    /\ TokenAtCursor.lexeme # "}"

\* the node type of the production of a statement keyword
KeywordProduction ==
    [d7klo |-> "If", d7kdw5ny |-> "While", d7klf |-> "For",
     d7ktba3a |-> "Output", d7ked5al |-> "Input", d7krg3 |-> "Return"]

\* the call of statement() that this step makes returned node type t
StatementReturns(t) ==
    parseState' = "parsing" => mainStmts'[Len(mainStmts')].node_type = t

StatementRaises(msg) ==
    /\ parseState' = "raised"
    /\ parseError' = msg

\* C7: statement() dispatches on its first token alone: a DATATYPE gives a
\* VarDecl, an IDENT an assignment (an identifier not followed by '=', as in
\* f(args);, raises "Expected '='"), each of the six statement keywords its
\* own node, and any other first token raises "Unexpected statement start"
\* with no token consumed.
C7_StatementDispatch ==
    [][AtStatement =>
        LET tok == TokenAtCursor IN
        /\ mainStmts' # mainStmts \/ parseState' = "raised"
        /\ tok.type = "DATATYPE" => StatementReturns("VarDecl")
        /\ tok.type = "IDENT" =>
              /\ StatementReturns("Assign")
              /\ ptokens[ppos + 2].lexeme # "=" => StatementRaises("Expected '='")
        /\ (tok.type = "KEYWORD" /\ tok.lexeme \in DOMAIN KeywordProduction) =>
              StatementReturns(KeywordProduction[tok.lexeme])
        /\ ~(\/ tok.type \in {"DATATYPE", "IDENT"}
             \/ tok.type = "KEYWORD" /\ tok.lexeme \in DOMAIN KeywordProduction) =>
              /\ StatementRaises("Unexpected statement start")
              /\ ppos' = ppos
    ]_vars

C7_Witness ==
    /\ parseState = "raised"
    /\ parsePc = "main_block"
    /\ parseError = "Expected '='"
    /\ ptokens[ppos + 1] = Sym("(")
    /\ ptokens[ppos] = Id("f")
    /\ mainStmts = <<>>

\* the analyzer is about to run the frame on top
AtFrame(kind) ==
    /\ semState = "analyzing"
    /\ frames # <<>>
    /\ frames[1].kind = kind

\* the top-level nodes of the program still to be visited
TopLevelPending ==
    {i \in 1..Len(frames) :
        /\ frames[i].kind = "visit"
        /\ frames[i].node.node_type \in {"FunctionDecl", "MainFunc"}}

\* the index, among the children of the Program node, of the function whose
\* body is being analysed
CurrentFunctionIndex == Len(root.children) - Cardinality(TopLevelPending)

\* the names of the functions declared textually at or before index i
DeclaredUpTo(i) ==
    {root.children[j].value :
        j \in {k \in 1..i : root.children[k].node_type = "FunctionDecl"}}

\* the Call node that is the whole expression of a statement, or NoNode
CallOf(node) ==
    IF /\ node.node_type \in {"VarDecl", "Assign"}
       /\ Len(node.children) = 2
       /\ node.children[2].node_type = "Call"
    THEN node.children[2]
    ELSE IF /\ node.node_type \in {"Return", "Output"}
            /\ Len(node.children) = 1
            /\ node.children[1].node_type = "Call"
    THEN node.children[1]
    ELSE NoNode

\* the analyzer is about to visit a statement whose expression is a call, and
\* nothing of the statement fails before the call is resolved
CallReached ==
    /\ AtFrame("visit")
    /\ CallOf(frames[1].node) # NoNode
    /\ frames[1].node.node_type = "VarDecl" =>
          ~InDict(scopes[Len(scopes)], frames[1].node.children[1].value)
    /\ frames[1].node.node_type = "Assign" =>
          \E i \in 1..Len(scopes) : InDict(scopes[i], frames[1].node.children[1].value)
    /\ frames[1].node.node_type = "Return" => current_return_type # "None"

UndeclaredFunction(name) == "Call to undeclared function '" \o name \o "'"

\* C8: a call in the body of function A to function B resolves iff B is A or
\* is declared textually before A, and raises "Call to undeclared function"
\* otherwise; main, the last child, resolves a call to every declared
\* function.
C8_VisibilityByOrder ==
    [][CallReached =>
        LET callee == CallOf(frames[1].node).value IN
        IF callee \in DeclaredUpTo(CurrentFunctionIndex)
        THEN semError' # UndeclaredFunction(callee)
        ELSE /\ semState' = "raised"
             /\ semError' = UndeclaredFunction(callee)
    ]_vars

C8_Witness ==
    /\ semState = "raised"
    /\ semError = UndeclaredFunction("g")
    /\ Len(root.children) = 3
    /\ root.children[1].value = "f"
    /\ root.children[2].value = "g"
    /\ Len(table) = 1

\* the type of name in the innermost scope that declares it
InnermostType(name) ==
    LET i == CHOOSE k \in 1..Len(scopes) :
                 /\ InDict(scopes[k], name)
                 /\ \A j \in (k + 1)..Len(scopes) : ~InDict(scopes[j], name)
    IN  DictGet(scopes[i], name).dtype

Redeclaration(name) == "Redeclaration of variable '" \o name \o "' in same scope"

\* what C9 says of a visit of the declaration of name with type dtype
DeclareJudgedOnInnermost(name, dtype) ==
    IF InDict(scopes[Len(scopes)], name)
    THEN /\ semState' = "raised"
         /\ semError' = Redeclaration(name)
         /\ scopes' = scopes
    ELSE /\ semError' # Redeclaration(name)
         /\ Len(scopes') = Len(scopes)
         /\ \A i \in 1..(Len(scopes) - 1) : scopes'[i] = scopes[i]
         /\ scopes'[Len(scopes)] =
               Append(scopes[Len(scopes)], [name |-> name, dtype |-> dtype])
         /\ SymbolTable_lookup(scopes', name) = Typed(dtype)

\* the type of a literal node, or "None" for another node
LiteralType(node) ==
    IF node.node_type = "StringLiteral" THEN "d7kmslsl"
    ELSE IF node.node_type = "BoolLiteral" THEN "d7kmntq"
    ELSE IF node.node_type = "NumberLiteral" /\ node.value \in DigitStrings
    THEN "d7krqm"
    ELSE "None"

\* what C9 says of a visit of name = literal, name being declared: the type
\* looked up is the one of the innermost declaration
LookupFindsInnermost(name, literal_type) ==
    IF \/ InnermostType(name) = literal_type
       \/ InnermostType(name) = "d7k34ry" /\ literal_type = "d7krqm"
    THEN semState' = "analyzing"
    ELSE /\ semState' = "raised"
         /\ semError' = "Type mismatch in assignment to '" \o name
                \o "': variable is " \o InnermostType(name)
                \o ", expression is " \o literal_type

\* C9: a declaration is judged against the innermost scope only: a name of
\* that scope raises a redeclaration error and leaves the scopes as they
\* were; a name of an enclosing scope only is declared (shadowing), the
\* enclosing scopes unchanged; and a lookup returns the innermost type.
C9_RedeclarationInnermost ==
    [][/\ (AtFrame("visit") /\ frames[1].node.node_type = "VarDecl") =>
             DeclareJudgedOnInnermost(frames[1].node.children[1].value,
                                      frames[1].node.value)
       /\ (/\ AtFrame("visit")
           /\ frames[1].node.node_type = "Assign"
           /\ LiteralType(frames[1].node.children[2]) # "None"
           /\ \E i \in 1..Len(scopes) :
                 InDict(scopes[i], frames[1].node.children[1].value)) =>
             LookupFindsInnermost(frames[1].node.children[1].value,
                                  LiteralType(frames[1].node.children[2]))
    ]_vars

C9_Witness ==
    /\ semState = "analyzing"
    /\ Len(scopes) = 3
    /\ scopes[2] = <<[name |-> "x", dtype |-> "d7krqm"]>>
    /\ scopes[3] = <<[name |-> "x", dtype |-> "d7kmslsl"]>>
    /\ frames # <<>>
    /\ frames[1].kind = "pop_block"

\* the scopes that the active Block and For visits have yet to pop
PendingPops ==
    {i \in 1..Len(frames) : frames[i].kind \in {"pop_block", "pop_for"}}

\* the names of a dict
NamesOf(dict) == {dict[i].name : i \in 1..Len(dict)}

\* the scopes above the global one are those of the active Block and For
\* visits: as many as pops are pending, so a Block or For that has run leaves
\* the depth it met
DepthMatchesNesting ==
    /\ semState = "analyzing" => Len(scopes) = 1 + Cardinality(PendingPops)
    /\ semState = "passed" => scopes = NewSymbolTable

\* C10: a Block and a For push one scope on entry and pop one on exit, so the
\* depth after one is analysed is the depth before it; a name declared only
\* in the scope popped is found by no lookup after the exit.
C10_ScopeLifetime ==
    /\ []DepthMatchesNesting
    /\ [][/\ (/\ AtFrame("visit")
              /\ frames[1].node.node_type \in {"Block", "For"}
              /\ semState' = "analyzing") =>
                /\ Len(scopes') = Len(scopes) + 1
                /\ \A i \in 1..Len(scopes) : scopes'[i] = scopes[i]
                /\ Cardinality(PendingPops') = Cardinality(PendingPops) + 1
          /\ (AtFrame("pop_block") \/ AtFrame("pop_for")) =>
                /\ scopes' = SubSeq(scopes, 1, Len(scopes) - 1)
                /\ frames' = Tail(frames)
                /\ \A n \in NamesOf(scopes[Len(scopes)]) :
                      (\A i \in 1..(Len(scopes) - 1) : ~InDict(scopes[i], n)) =>
                          SymbolTable_lookup(scopes', n).err # NoErr
       ]_vars

C10_Witness ==
    /\ semState = "raised"
    /\ semError = "Use of undeclared variable 'x'"
    /\ Len(scopes) = 2
    /\ scopes[2] = <<>>
    /\ root = parse(MainWith(IfBlock(<<Dt("d7krqm"), Id("x"), Sym(";")>>)
                             \o <<Id("x"), Sym("="), Num("1"), Sym(";")>>)).val

(***************************************************************************)
(* C11 .. C20                                                              *)
(***************************************************************************)
\* the run of main has ended: an exception left it, or the analysis passed
PipelineEnded ==
    \/ scanState = "raised"
    \/ parseState = "raised"
    \/ semState \in {"raised", "passed"}

\* C11: a variable declared inside a for-header lives in the scope the loop
\* opens and is invisible after the loop: the run on
\*   main() { for (int i = 0; i < 3; i = i + 1) { } i = 1; }
\* ends with the analyzer's error "Use of undeclared variable 'i'" for the
\* reference after the loop.
C11_ForHeaderVariableScoped ==
    (source = ForHeaderDeclSource /\ PipelineEnded) =>
        /\ scanState = "returned"
        /\ parseState = "returned"
        /\ semState = "raised"
        /\ semError = "Use of undeclared variable 'i'"

\* the four types, by the names the claims give them
IntegerType == "d7krqm"
DecimalType == "d7k34ry"
StringType == "d7kmslsl"
BooleanType == "d7kmntq"

\* the type of a literal operand ("None" for a node that is no literal)
OperandType(node) ==
    IF node.node_type = "NumberLiteral" /\ node.value \in DecimalLexemes
    THEN DecimalType
    ELSE LiteralType(node)

\* the analyzer is about to visit  T name = a op b ;  with op among ops, a and
\* b literals and name not yet declared in the innermost scope
VisitingBinaryOpInit(ops) ==
    /\ Visiting("VarDecl")
    /\ Len(frames[1].node.children) = 2
    /\ ~InDict(scopes[Len(scopes)], frames[1].node.children[1].value)
    /\ frames[1].node.children[2].node_type = "BinaryOp"
    /\ frames[1].node.children[2].value \in ops
    /\ \A i \in 1..2 :
          OperandType(frames[1].node.children[2].children[i]) # "None"

\* the visit raised the SemanticError msg
RaisedNow(msg) ==
    /\ semState' = "raised"
    /\ semError' = msg

\* what storing a value of type e in the variable name of type t does: it
\* goes on when t = e or integer widens to decimal, it raises otherwise
StoredInto(t, e, context) ==
    IF t = e \/ (t = DecimalType /\ e = IntegerType)
    THEN semState' = "analyzing"
    ELSE RaisedNow("Type mismatch in " \o context \o ": variable is " \o t
                   \o ", expression is " \o e)

\* the result of the visit of  T name = a op b ;  when a op b has type e
InitWithType(e) ==
    StoredInto(frames[1].node.value, e,
               "initialization of '" \o frames[1].node.children[1].value \o "'")

\* C12: arithmetic typing.  a op b with op in {+, -, *, /} type-checks iff
\* both operand types are integer or decimal; its type is decimal when an
\* operand is decimal and integer otherwise (seen in what the initialised
\* variable accepts); a string or boolean operand raises.
C12_ArithmeticTyping ==
    [][VisitingBinaryOpInit({"+", "-", "*", "/"}) =>
        LET e == frames[1].node.children[2]
            l == OperandType(e.children[1])
            r == OperandType(e.children[2])
        IN  IF {l, r} \subseteq {IntegerType, DecimalType}
            THEN InitWithType(IF DecimalType \in {l, r} THEN DecimalType
                                                       ELSE IntegerType)
            ELSE RaisedNow("Operator '" \o e.value
                           \o "' requires numeric operands, got "
                           \o l \o " and " \o r)
      ]_vars

\* d7krqm v = 1.0 + 2 ;  is rejected: the sum is decimal
C12_Witness ==
    /\ semState = "raised"
    /\ semError = "Type mismatch in initialization of 'v': variable is d7krqm, expression is d7k34ry"
    /\ root = parse(MainWith(<<Dt("d7krqm"), Id("v"), Sym("="), Num("1.0"),
                              Sym("+"), Num("2"), Sym(";")>>)).val

\* C13: comparison typing.  a op b with op in {==, !=, <, >, <=, >=}
\* type-checks iff the two operand types are identical (integer against
\* decimal raises; two strings or two booleans under '<' are accepted), and
\* its type is boolean (seen in what the initialised variable accepts).
C13_ComparisonTyping ==
    [][VisitingBinaryOpInit({"==", "!=", "<", ">", "<=", ">="}) =>
        LET e == frames[1].node.children[2]
            l == OperandType(e.children[1])
            r == OperandType(e.children[2])
        IN  IF l = r
            THEN InitWithType(BooleanType)
            ELSE RaisedNow("Comparison '" \o e.value
                           \o "' with mismatched types " \o l \o " and " \o r)
      ]_vars

\* d7kmntq v = "s" < "s" ;  is accepted and v is declared boolean
C13_Witness ==
    /\ semState = "passed"
    /\ root = parse(MainWith(<<Dt("d7kmntq"), Id("v"), Sym("="), Str("s"),
                              Rel("<"), Str("s"), Sym(";")>>)).val

\* node is a literal
IsLiteral(node) == OperandType(node) # "None"

\* the four sites where a literal is stored: the slot's type, the literal and
\* the text the message names; <<>> when the analyzer is at none of them
StorageSite ==
    IF ~AtFrame("visit") THEN <<>>
    ELSE LET node == frames[1].node IN
    IF /\ node.node_type = "VarDecl"
       /\ Len(node.children) = 2
       /\ IsLiteral(node.children[2])
       /\ ~InDict(scopes[Len(scopes)], node.children[1].value)
    THEN <<node.value, node.children[2],
           "initialization of '" \o node.children[1].value \o "'">>
    ELSE IF /\ node.node_type = "Assign"
            /\ IsLiteral(node.children[2])
            /\ SymbolTable_lookup(scopes, node.children[1].value).err = NoErr
    THEN <<SymbolTable_lookup(scopes, node.children[1].value).type,
           node.children[2],
           "assignment to '" \o node.children[1].value \o "'">>
    ELSE IF /\ node.node_type = "Output"
            /\ node.children[1].node_type = "Call"
            /\ Len(node.children[1].children) = 1
            /\ IsLiteral(node.children[1].children[1])
            /\ InDict(table, node.children[1].value)
            /\ Len(DictGet(table, node.children[1].value).param_types) = 1
    THEN <<DictGet(table, node.children[1].value).param_types[1],
           node.children[1].children[1],
           "argument of '" \o node.children[1].value \o "'">>
    ELSE IF /\ node.node_type = "Return"
            /\ current_return_type # "None"
            /\ node.children # <<>>
            /\ IsLiteral(node.children[1])
    THEN <<current_return_type, node.children[1], "return statement">>
    ELSE <<>>

\* C14: storage compatibility is one relation at the four sites (variable
\* initialisation, assignment, call argument, return value): a value of type
\* E is accepted into a slot of type T iff T = E or T is decimal and E is
\* integer; every other pair, decimal into integer included, raises the type
\* mismatch.
C14_StorageCompatibility ==
    [][StorageSite # <<>> =>
          StoredInto(StorageSite[1], OperandType(StorageSite[2]), StorageSite[3])
      ]_vars

\* 1.0 returned from a function declared d7krqm is rejected
C14_Witness ==
    /\ semState = "raised"
    /\ semError = "Type mismatch in return statement: variable is d7krqm, expression is d7k34ry"
    /\ root = parse(FunctionWith("d7krqm", <<>>, <<Kw("d7krg3"), Num("1.0"), Sym(";")>>)
                    \o MainWith(<<>>)).val

\* the top-level node (FunctionDecl or MainFunc) whose body is being analysed
EnclosingFunction == root.children[CurrentFunctionIndex]

\* the analyzer is about to visit  d7krg3 ;  or  d7krg3 e ;  with e a literal
VisitingReturn ==
    /\ Visiting("Return")
    /\ frames[1].node.children # <<>> => IsLiteral(frames[1].node.children[1])

\* C15: in main a return with an expression raises and a bare return goes on;
\* in any other function a bare return raises and a return with an
\* expression goes on iff the expression's type may be stored in the declared
\* return type; the same at every nesting of the return statement.
C15_ReturnRules ==
    [][VisitingReturn =>
        LET node == frames[1].node
            f == EnclosingFunction
        IN  IF f.node_type = "MainFunc"
            THEN IF node.children # <<>>
                 THEN RaisedNow("Main function 'd7kbdaya' cannot return a value")
                 ELSE semState' = "analyzing"
            ELSE IF node.children = <<>>
                 THEN RaisedNow("Function must return a value of type "
                                \o f.children[1].value)
                 ELSE StoredInto(f.children[1].value,
                                 OperandType(node.children[1]), "return statement")
      ]_vars

\* a bare return in a while in an if in a d7k34ry function is rejected
C15_Witness ==
    /\ semState = "raised"
    /\ semError = "Function must return a value of type d7k34ry"
    /\ Len(scopes) = 4
    /\ root = parse(FunctionWith("d7k34ry", <<>>,
                        Nested("if-while", <<Kw("d7krg3"), Sym(";")>>))
                    \o MainWith(<<>>)).val

\* a value of type e may be stored in a slot of type t
Compatible(t, e) == t = e \/ (t = DecimalType /\ e = IntegerType)

\* the analyzer is about to visit  T v = name ( e1 , ... ) ;  with name a
\* declared function, e1 ... literals and v not yet declared
VisitingCallInit ==
    /\ Visiting("VarDecl")
    /\ Len(frames[1].node.children) = 2
    /\ ~InDict(scopes[Len(scopes)], frames[1].node.children[1].value)
    /\ frames[1].node.children[2].node_type = "Call"
    /\ InDict(table, frames[1].node.children[2].value)
    /\ \A i \in 1..Len(frames[1].node.children[2].children) :
          IsLiteral(frames[1].node.children[2].children[i])

\* C16: a call of a declared function type-checks iff it has as many
\* arguments as the callee has parameters and every argument's type may be
\* stored in the parameter at its position (the first that may not is the
\* one reported); the call has the callee's declared return type (seen in
\* what the initialised variable accepts).
C16_CallRules ==
    [][VisitingCallInit =>
        LET call == frames[1].node.children[2]
            callee == DictGet(table, call.value)
            args == call.children
            bad == {i \in 1..Len(args) :
                       ~Compatible(callee.param_types[i], OperandType(args[i]))}
        IN  IF Len(args) # Len(callee.param_types)
            THEN RaisedNow("Argument count mismatch in call to '" \o call.value
                           \o "': expected " \o Numeral(Len(callee.param_types))
                           \o ", got " \o Numeral(Len(args)))
            ELSE IF bad # {}
            THEN \E i \in bad :
                    /\ \A j \in bad : i <= j
                    /\ RaisedNow("Type mismatch in argument of '" \o call.value
                                 \o "': variable is " \o callee.param_types[i]
                                 \o ", expression is " \o OperandType(args[i]))
            ELSE InitWithType(callee.ret_type)
      ]_vars

\* f ( 1 ) is rejected for f of two parameters
C16_Witness ==
    /\ semState = "raised"
    /\ semError = "Argument count mismatch in call to 'f': expected 2, got 1"
    /\ InDict(table, "f")
    /\ DictGet(table, "f").param_types = <<"d7k34ry", "d7krqm">>

\* the type of a condition that is a literal or one operator over two
\* literals, by the typing rules of C12 and C13 ("None" for any other node and
\* for an expression that does not type-check)
ConditionType(node) ==
    IF IsLiteral(node) THEN OperandType(node)
    ELSE IF /\ node.node_type = "BinaryOp"
            /\ IsLiteral(node.children[1])
            /\ IsLiteral(node.children[2])
    THEN LET l == OperandType(node.children[1])
             r == OperandType(node.children[2])
         IN  IF node.value \in {"==", "!=", "<", ">", "<=", ">="}
             THEN IF l = r THEN BooleanType ELSE "None"
             ELSE IF {l, r} \subseteq {IntegerType, DecimalType}
             THEN IF DecimalType \in {l, r} THEN DecimalType ELSE IntegerType
             ELSE "None"
    ELSE "None"

\* the condition the analyzer is about to check, the statement's name in the
\* message and the body block (and else block) it guards; <<>> when the
\* analyzer is not at a condition
ConditionSite ==
    IF Visiting("If")
    THEN <<frames[1].node.children[1], "If", Tail(frames[1].node.children)>>
    ELSE IF Visiting("While")
    THEN <<frames[1].node.children[1], "While", Tail(frames[1].node.children)>>
    ELSE IF AtFrame("for_cond")
    THEN <<frames[1].node, "For", <<frames[3].node>>>>
    ELSE <<>>

\* C17: the condition of an if, a while and a for must be boolean: a
\* condition of type integer, decimal or string raises the SemanticError and
\* nothing is left to visit, so the body block is not analysed; a boolean
\* condition lets the analysis go on to the blocks.
C17_ConditionsBoolean ==
    [][(ConditionSite # <<>> /\ ConditionType(ConditionSite[1]) # "None") =>
        LET t == ConditionType(ConditionSite[1])
        IN  IF t # BooleanType
            THEN /\ RaisedNow(ConditionSite[2]
                              \o " condition must be bool (d7kmntq), got " \o t)
                 /\ \A i \in 1..Len(frames') : frames'[i].kind # "visit"
            ELSE /\ semState' = "analyzing"
                 /\ \A i \in 1..Len(ConditionSite[3]) :
                       \E j \in 1..Len(frames') :
                          /\ frames'[j].kind = "visit"
                          /\ frames'[j].node = ConditionSite[3][i]
      ]_vars

\* d7kdw5ny ( 1 + 2 ) { y = 1 ; }  raises for the condition, not for y
C17_Witness ==
    /\ semState = "raised"
    /\ semError = "While condition must be bool (d7kmntq), got d7krqm"
    /\ root = parse(MainWith(<<Kw("d7kdw5ny"), Sym("("), Num("1"), Sym("+"), Num("2"),
                               Sym(")"), Sym("{")>> \o UndeclaredUse
                             \o <<Sym("}")>>)).val

\* no two entries of the function table have one name
NoDuplicateFunction ==
    \A i, j \in 1..Len(table) : table[i].name = table[j].name => i = j

\* C18: the function table never holds two entries for one name; the
\* declaration of a name already in it raises the redefinition error, whatever
\* the return type and parameters, and leaves the table as it was; any other
\* declaration appends its entry; no step removes or overwrites an entry.
C18_FunctionTableUnique ==
    /\ []NoDuplicateFunction
    /\ [][/\ Len(table') >= Len(table)
          /\ \A i \in 1..Len(table) : table'[i] = table[i]
          /\ Visiting("FunctionDecl") =>
                LET node == frames[1].node
                IN  IF InDict(table, node.value)
                    THEN /\ RaisedNow("Redefinition of function '" \o node.value \o "'")
                         /\ table' = table
                    ELSE /\ semState' = "analyzing"
                         /\ table' = Append(table,
                               [name |-> node.value,
                                ret_type |-> node.children[1].value,
                                param_types |-> ParamTypesOf(node.children[2])])
       ]_vars

\* d7krqm f ( ) { }  d7kmslsl f ( d7krqm a ) { }  raises and keeps the first f
C18_Witness ==
    /\ semState = "raised"
    /\ semError = "Redefinition of function 'f'"
    /\ table = <<[name |-> "f", ret_type |-> "d7krqm", param_types |-> <<>>]>>
    /\ root.children[2].node_type = "FunctionDecl"
    /\ root.children[2].children[1].value = "d7kmslsl"
    /\ ParamTypesOf(root.children[2].children[2]) = <<"d7krqm">>

\* the stages that have raised an error
StagesRaised ==
    {st \in {"scan", "parse", "sem"} :
        \/ st = "scan" /\ (scanState = "raised" \/ scanError # "None")
        \/ st = "parse" /\ (parseState = "raised" \/ parseError # NoErr)
        \/ st = "sem" /\ (semState = "raised" \/ semError # NoErr)}

\* the stages are started in order, each on what the one before returned, and
\* at most one error is raised, after which no later stage is started
StrictlyOrdered ==
    /\ parseState # "idle" => (scanState = "returned" /\ ptokens = scanResult)
    /\ semState # "idle" => (parseState = "returned" /\ root = parseResult)
    /\ Cardinality(StagesRaised) <= 1
    /\ scanState = "raised" => (parseState = "idle" /\ semState = "idle")
    /\ parseState = "raised" => semState = "idle"
    /\ semState = "raised" => frames = <<>>

\* C19: the pipeline is fail-fast and strictly ordered: the parser runs only
\* after the scan has returned, the analyzer only after the parse has
\* returned, and once an error is raised the run takes no further step: no
\* later stage is started, no further statement is analysed and no second
\* error is raised.
C19_FailFastOrdered ==
    /\ []StrictlyOrdered
    /\ [][StagesRaised = {}]_vars

\* x = 1 ; z = true ; y = 2 ;  with x and y undeclared and z an integer ends
\* with the error of x alone
C19_Witness ==
    /\ source = TwoSemanticErrorsSource
    /\ scanState = "returned"
    /\ parseState = "returned"
    /\ semState = "raised"
    /\ semError = "Use of undeclared variable 'x'"

\* the order of the patterns the claim names
ClaimedOrder ==
    <<"WHITESPACE", "COMMENT", "STRING", "RELOP", "SYMBOL", "NUMBER", "IDENT">>

\* the scanner is about to try the patterns at the cursor
AtCursor ==
    /\ scanState = "scanning"
    /\ pos < Len(source)

\* the step consumed the text up to e and appended the tokens toks
Consumed(e, toks) ==
    /\ scanState' = "scanning"
    /\ pos' = e
    /\ tokens' = tokens \o toks

\* the end of the line the cursor is on
LineEnd ==
    CHOOSE q \in pos..Len(source) :
        /\ q = Len(source) \/ CharAt(source, q) = "\n"
        /\ \A r \in pos..(q - 1) : CharAt(source, r) # "\n"

\* the step took the first pattern of the claimed order that matches
CommitsToFirst ==
    \A k \in 1..Len(ClaimedOrder) :
        (/\ PatternMatch(ClaimedOrder[k], source, pos) # NoMatch
         /\ \A j \in 1..(k - 1) :
               PatternMatch(ClaimedOrder[j], source, pos) = NoMatch)
        => /\ scanState' = "scanning"
           /\ pos' = PatternMatch(ClaimedOrder[k], source, pos)
           /\ tokens' # tokens =>
                 tokens'[Len(tokens')].type \in
                    IF ClaimedOrder[k] = "IDENT"
                    THEN {"IDENT", "DATATYPE", "KEYWORD", "BOOL"}
                    ELSE {ClaimedOrder[k]}

\* what the step does on the characters c d at the cursor
OperatorStep(c, d) ==
    IF c \in {"<", ">", "=", "!"} /\ d = "="
    THEN Consumed(pos + 2, <<Token("RELOP", c \o "=", line)>>)
    ELSE IF c \in {"<", ">"}
    THEN Consumed(pos + 1, <<Token("RELOP", c, line)>>)
    ELSE IF c = "="
    THEN Consumed(pos + 1, <<Token("SYMBOL", "=", line)>>)
    ELSE IF c = "/" /\ d = "/"
    THEN Consumed(LineEnd, <<>>)
    ELSE IF c = "/"
    THEN Consumed(pos + 1, <<Token("SYMBOL", "/", line)>>)
    ELSE IF c = "!"
    THEN scanState' = "raised"
    ELSE TRUE

\* C20: the scanner commits to the first pattern that matches at the cursor,
\* in the order whitespace, comment, string, relational operator, symbol,
\* number, identifier: <=, >=, == and != are one RELOP token each, // starts
\* a comment (no token, to the end of the line) and not two / symbols, and an
\* = that no = follows is a SYMBOL.
C20_FirstPatternWins ==
    [][AtCursor =>
          /\ CommitsToFirst
          /\ OperatorStep(CharAt(source, pos), CharAt(source, pos + 1))
      ]_vars

\* === scans to the RELOP == and the SYMBOL =
C20_Witness ==
    /\ scanState = "returned"
    /\ source = <<"=", "=", "=">>
    /\ scanResult = <<Token("RELOP", "==", 1), Token("SYMBOL", "=", 1), EofToken(1)>>

(***************************************************************************)
(* C21 .. C30                                                              *)
(***************************************************************************)
\* the number of newline characters among the first n characters of the source
NewlinesBefore(n) == Cardinality({i \in 1..n : source[i] = "\n"})

\* the lines of the tokens toks never decrease
LinesNonDecreasing(toks) ==
    \A i, j \in 1..Len(toks) : i <= j => toks[i].line <= toks[j].line

\* the line counter and the tokens' lines agree with the newlines read so far
LinesCounted ==
    /\ scanState = "scanning" => line = 1 + NewlinesBefore(pos)
    /\ LinesNonDecreasing(tokens)
    /\ LinesNonDecreasing(scanResult)

\* C21: the line of every emitted token is 1 plus the number of newline
\* characters before its first character; whitespace and comments emit no
\* token, the newlines of whitespace advance the line counter, and the lines
\* never decrease along the token sequence.
C21_TokenLines ==
    /\ []LinesCounted
    /\ [][(scanState = "scanning" /\ pos < Len(source)) =>
             /\ Len(tokens') > Len(tokens) =>
                   /\ Len(tokens') = Len(tokens) + 1
                   /\ tokens'[Len(tokens')].line = 1 + NewlinesBefore(pos)
                   /\ SubSeq(tokens', 1, Len(tokens)) = tokens
             /\ (\/ CharAt(source, pos) \in WsChars
                 \/ (CharAt(source, pos) = "/" /\ CharAt(source, pos + 1) = "/")) =>
                   /\ tokens' = tokens
                   /\ line' = 1 + NewlinesBefore(pos')
                   /\ pos' > pos
       ]_vars

\* a on line 1, a newline, a on line 2
C21_Witness ==
    /\ scanState = "returned"
    /\ source = <<"a", "\n", "a">>
    /\ scanResult = <<Token("IDENT", "a", 1), Token("IDENT", "a", 2), EofToken(2)>>

\* the positions advance() has consumed are 0, 1, ... up to the cursor: the
\* cursor has moved by advance() alone, one token at a time, and no token
\* was consumed twice
ConsumedInOrder ==
    /\ Len(padv) = ppos
    /\ \A i \in 1..Len(padv) : padv[i] = i - 1

\* C22: the parser's cursor is never rewound: over every step of parse the
\* position does not decrease, every token is consumed at most once, and the
\* position moves by advance() alone (current and peek leave it).
C22_CursorNeverRewound ==
    /\ []ConsumedInOrder
    /\ [][/\ ppos' >= ppos
          /\ Len(padv') >= Len(padv)
          /\ SubSeq(padv', 1, Len(padv)) = padv]_vars

\* the whole of FullProgram is parsed: every token but EOF consumed once, the
\* call g ( ... ) found by peek
C22_Witness ==
    /\ parseState = "returned"
    /\ ptokens = FullProgram \o <<Eof>>
    /\ ppos = Len(FullProgram)
    /\ Len(padv) = Len(FullProgram)

\* the number of nodes of type t in the trees nodes, from the i-th
RECURSIVE CountNodes(_, _, _)
CountNodes(nodes, i, t) ==
    IF i > Len(nodes) THEN 0
    ELSE (IF nodes[i].node_type = t THEN 1 ELSE 0)
         + CountNodes(nodes[i].children, 1, t)
         + CountNodes(nodes, i + 1, t)

\* the number of STRING tokens among the tokens
StringTokens == Cardinality({i \in 1..Len(ptokens) : ptokens[i].type = "STRING"})

\* C23: a STRING token is consumed only as a StringLiteral primary: a token
\* sequence that parse() accepts has as many StringLiteral nodes in its tree
\* as it has STRING tokens, so a sequence with a STRING token in the place of
\* a symbol or keyword of the same spelling is a syntax error.
C23_StringOnlyLiteral ==
    parseState = "returned" =>
        CountNodes(<<parseResult>>, 1, "StringLiteral") = StringTokens

\* the token list ends with its only EOF token
EndsWithOneEof(toks) ==
    /\ Len(toks) >= 1
    /\ \A i \in 1..Len(toks) : (toks[i].type = "EOF") <=> (i = Len(toks))

\* the index of the EOF token, counted from 0 as self.pos is
EofIndex(toks) == Len(toks) - 1

\* C24: on a token list that ends with exactly one EOF, the parser never
\* consumes the EOF token: the cursor stays at or below the index of EOF,
\* no advance() was made at that index, current() is a token of the list
\* (no IndexError), a parse that has not ended can take its next step, and
\* it ends with a Program tree or with a ParserError.
C24_EofNeverConsumed ==
    (parseState # "idle" /\ EndsWithOneEof(ptokens)) =>
        /\ ppos <= EofIndex(ptokens)
        /\ \A i \in 1..Len(padv) : padv[i] < EofIndex(ptokens)
        /\ current(ptokens, ParserNow) # IndexErrorTok
        /\ current(ptokens, ParserNow) = ptokens[ppos + 1]
        /\ parseState \in {"parsing", "returned", "raised"}
        /\ parseState = "parsing" => ENABLED ParseNext
        /\ parseState = "returned" =>
              /\ parseResult.node_type = "Program"
              /\ parseError = NoErr
              /\ ppos = EofIndex(ptokens)
        /\ parseState = "raised" => (parseError # NoErr /\ parseResult = NoNode)

\* the program without the brace that closes main: the parser reaches EOF
\* inside the block and raises there, with the cursor on the EOF token
C24_Witness ==
    /\ parseState = "raised"
    /\ ptokens = SubSeq(FullProgram, 1, Len(FullProgram) - 1) \o <<Eof>>
    /\ EndsWithOneEof(ptokens)
    /\ ppos = EofIndex(ptokens)
    /\ parseError = "Expected '}'"

\* a parser with its cursor on the token of index p
ParserAt(p) == [pos |-> p, adv |-> <<>>, err |-> NoErr, val |-> NoNode]

\* the iteration that took the parser from s to r consumed a token or raised
Progress(s, r) == Failed(r) \/ r.pos > s.pos

\* one iteration of each inner loop of the parser, entered with the cursor
\* at s: the loop's test, then its body
StatementLoopProgress(toks, s) ==
    MoreStatements(toks, s) => Progress(s, statement(toks, s))

FunctionLoopProgress(toks, s) ==
    (~IsMainKeyword(current(toks, s)) /\ current(toks, s).type # "EOF") =>
        Progress(s, function_decl(toks, s))

ParamLoopProgress(toks, s) ==
    LET a == accept_lexeme(toks, s, ",") IN
    a.val # NoneTok => Progress(s, param(toks, a))

ArgLoopProgress(toks, s) ==
    LET a == accept_lexeme(toks, s, ",") IN
    a.val # NoneTok => Progress(s, expr(toks, a))

OperatorLoopsProgress(toks, s) ==
    LET tok == current(toks, s) IN
    /\ (tok.type = "RELOP" /\ tok.lexeme \in {"==", "!="}) =>
          Progress(s, relational(toks, advance(toks, s)))
    /\ (tok.type = "RELOP" /\ tok.lexeme \in {"<", ">", "<=", ">="}) =>
          Progress(s, add(toks, advance(toks, s)))
    /\ tok.lexeme \in {"+", "-"} => Progress(s, mul(toks, advance(toks, s)))
    /\ tok.lexeme \in {"*", "/"} => Progress(s, primary(toks, advance(toks, s)))

\* wherever the cursor stands in the token list, an iteration of any of the
\* loops makes progress
EveryLoopProgresses(toks) ==
    \A p \in 0..(Len(toks) - 1) :
        /\ FunctionLoopProgress(toks, ParserAt(p))
        /\ StatementLoopProgress(toks, ParserAt(p))
        /\ ParamLoopProgress(toks, ParserAt(p))
        /\ ArgLoopProgress(toks, ParserAt(p))
        /\ OperatorLoopsProgress(toks, ParserAt(p))

ParseEnded == parseState \in {"returned", "raised"}

\* C25: parse() terminates on every token list that ends with EOF: every
\* iteration of the function loop of parse, of the statement-list loop, of the
\* parameter and argument loops and of the four operator loops consumes at
\* least one token or raises, every step of parse moves the cursor forward
\* or ends the parse, and the parse ends.
C25_ParseTerminates ==
    /\ [](ParseEnded => EveryLoopProgresses(ptokens))
    /\ [][parseState = "parsing" => (ppos' > ppos \/ ParseEnded')]_vars
    /\ <>ParseEnded

\* the full program has been parsed to its end: every loop has iterated
C25_Witness ==
    /\ parseState = "returned"
    /\ ptokens = FullProgram \o <<Eof>>
    /\ Len(progChildren) = 2
    /\ Len(mainStmts) = 4
    /\ EveryLoopProgresses(ptokens)

\* the analyzer is about to visit  T name = e ;
VisitingVarDeclInit ==
    /\ Visiting("VarDecl")
    /\ Len(frames[1].node.children) = 2

\* the name that the VarDecl under visit declares, and its initialiser
DeclaredName == frames[1].node.children[1].value
Initialiser == frames[1].node.children[2]

\* the innermost scope holds the name
InInnermostScope(name) == InDict(scopes[Len(scopes)], name)

RedeclarationOf(name) == "Redeclaration of variable '" \o name \o "' in same scope"
UndeclaredUseOf(name) == "Use of undeclared variable '" \o name \o "'"

\* C26: in a variable declaration with an initialiser the name is declared
\* before the initialiser is type-checked.  T x = x ; goes on whenever x is
\* not yet in the innermost scope, whether or not an outer x exists and
\* whatever its type: the initialiser is the variable being declared.  A
\* redeclaration raises before the initialiser is looked at, and no
\* declaration raises for an undeclared use of its own name.
C26_DeclaredBeforeInitialiser ==
    [][VisitingVarDeclInit =>
          /\ InInnermostScope(DeclaredName) =>
                (RaisedNow(RedeclarationOf(DeclaredName)) /\ scopes' = scopes)
          /\ ~InInnermostScope(DeclaredName) =>
                /\ scopes' = [scopes EXCEPT ![Len(scopes)] =
                                 Append(@, [name |-> DeclaredName,
                                            dtype |-> frames[1].node.value])]
                /\ ~RaisedNow(UndeclaredUseOf(DeclaredName))
                /\ (Initialiser.node_type = "Identifier"
                    /\ Initialiser.value = DeclaredName) => semState' = "analyzing"
      ]_vars

\* the analyzer has gone past  d7krqm x = x ;  in a block under a string x
C26_Witness ==
    /\ semState = "analyzing"
    /\ root \in {parse(MainWith(<<Dt("d7kmslsl"), Id("x"), Sym(";")>>
                   \o IfBlock(<<Dt("d7krqm"), Id("x"), Sym("="), Id("x"),
                                Sym(";")>>))).val}
    /\ Len(scopes) = 3
    /\ scopes[2] = <<[name |-> "x", dtype |-> "d7kmslsl"]>>
    /\ scopes[3] = <<[name |-> "x", dtype |-> "d7krqm"]>>

\* the names that the trees nodes declare, from the i-th: those of their
\* Param and VarDecl nodes
RECURSIVE NamesDeclaredIn(_, _)
NamesDeclaredIn(nodes, i) ==
    IF i > Len(nodes) THEN {}
    ELSE (IF nodes[i].node_type = "VarDecl" THEN {nodes[i].children[1].value}
          ELSE IF nodes[i].node_type = "Param" THEN {nodes[i].children[2].value}
          ELSE {})
         \cup NamesDeclaredIn(nodes[i].children, 1)
         \cup NamesDeclaredIn(nodes, i + 1)

\* the names that a lookup can find
VisibleNames ==
    UNION {{scopes[i][j].name : j \in 1..Len(scopes[i])} : i \in 1..Len(scopes)}

\* the stack is the single empty global scope
OnlyGlobalScope == scopes = <<<<>>>>

\* the analyzer stands between two top-level functions, or at its end
BetweenFunctions ==
    \/ Visiting("Program") \/ Visiting("FunctionDecl") \/ Visiting("MainFunc")
    \/ semState = "analyzing" /\ frames # <<>> /\ frames[1].kind = "restore"
    \/ semState = "analyzing" /\ frames = <<>>
    \/ semState = "passed"

ScopeStackSound ==
    semState # "idle" =>
        /\ Len(scopes) >= 1
        /\ scopes[1] = <<>>
        /\ BetweenFunctions => OnlyGlobalScope
        /\ (semState = "analyzing" /\ VisibleNames # {}) =>
              VisibleNames \subseteq NamesDeclaredIn(<<EnclosingFunction>>, 1)

\* C27: the scope stack always holds at least the global scope, which is
\* always empty: a scope is pushed only by a Block or a For and every
\* declaration lands in a pushed scope; the names visible in a function are
\* names that this function declares, never those of another function; and
\* before and after each top-level function the stack is the single empty
\* global scope.
C27_ScopeStack ==
    /\ []ScopeStackSound
    /\ [][/\ Len(scopes') > Len(scopes) =>
                /\ Visiting("Block") \/ Visiting("For")
                /\ Len(scopes') = Len(scopes) + 1
                /\ SubSeq(scopes', 1, Len(scopes)) = scopes
          /\ (Len(scopes') = Len(scopes) /\ scopes' # scopes) =>
                /\ Visiting("VarDecl")
                /\ Len(scopes) >= 2
                /\ SubSeq(scopes', 1, Len(scopes) - 1)
                     = SubSeq(scopes, 1, Len(scopes) - 1)
         ]_vars

\* in the body of g, after f ( d7krqm a ) { d7krqm b ; } has been analysed:
\* a and b are those of g
C27_Witness ==
    /\ semState = "analyzing"
    /\ Len(root.children) = 3
    /\ root.children[1] = parse(FunctionWithLocals \o MainWith(<<>>)).val.children[1]
    /\ CurrentFunctionIndex = 2
    /\ scopes = << <<>>, <<[name |-> "a", dtype |-> "d7kmslsl"],
                           [name |-> "b", dtype |-> "d7kmslsl"]>> >>

\* the names of the parameters of a top-level function; main has none
ParamNamesOf(fn) ==
    IF fn.node_type = "FunctionDecl"
    THEN {ParamPairsOf(fn.children[2])[i].name : i \in 1..Len(fn.children[2].children)}
    ELSE {}

\* the first name that occurs twice in the pairs, "" when there is none
FirstDuplicate(pairs) ==
    LET dups == {j \in 1..Len(pairs) :
                    \E k \in 1..(j - 1) : pairs[k].name = pairs[j].name}
    IN IF dups = {} THEN ""
       ELSE pairs[CHOOSE j \in dups : \A k \in dups : j <= k].name

\* the analyzer is about to enter the body block of a function that has
\* parameters
EnteringBodyWithParams == Visiting("Block") /\ Truthy(pending_params)

\* C28: the parameters are declared into the scope of the top-level
\* statements of the body block.  Two parameters of one name raise a
\* redeclaration at the entry of the body; a local declared at the top level
\* of the body under a parameter's name raises a redeclaration; the same
\* declaration in a block nested in the body goes on and shadows the
\* parameter.
C28_ParametersInBodyScope ==
    [][/\ EnteringBodyWithParams =>
             IF FirstDuplicate(pending_params.pairs) # ""
             THEN RaisedNow(RedeclarationOf(FirstDuplicate(pending_params.pairs)))
             ELSE /\ semState' = "analyzing"
                  /\ scopes' = Append(scopes, pending_params.pairs)
       /\ (Visiting("VarDecl")
           /\ frames[1].node.children[1].value \in ParamNamesOf(EnclosingFunction)) =>
             /\ Len(scopes) = 2 =>
                   RaisedNow(RedeclarationOf(frames[1].node.children[1].value))
             /\ (Len(scopes) > 2
                 /\ ~InInnermostScope(frames[1].node.children[1].value)
                 /\ Len(frames[1].node.children) = 1) =>
                   /\ semState' = "analyzing"
                   /\ scopes'[2] = scopes[2]
                   /\ SymbolTable_lookup(scopes', frames[1].node.children[1].value).type
                        = frames[1].node.value
      ]_vars

\* in  d7krqm f ( d7krqm a , d7kmslsl b ) { d7klo ( true ) { d7kmslsl a ; } }
\* the string a of the nested block shadows the integer parameter a
C28_Witness ==
    /\ semState = "analyzing"
    /\ Len(scopes) = 3
    /\ scopes[2] = <<[name |-> "a", dtype |-> "d7krqm"],
                     [name |-> "b", dtype |-> "d7kmslsl"]>>
    /\ scopes[3] = <<[name |-> "a", dtype |-> "d7kmslsl"]>>
    /\ SymbolTable_lookup(scopes, "a").type = "d7kmslsl"

\* the analyzer is inside the visit of the body of a top-level function
InFunctionBody ==
    /\ semState = "analyzing"
    /\ ~BetweenFunctions

\* what self.current_return_type is to be in the body of the function fn
ReturnTypeOf(fn) ==
    IF fn.node_type = "MainFunc" THEN "None" ELSE fn.children[1].value

\* the Block under visit is the body block of the enclosing FunctionDecl,
\* and it is entered for the first time
AtOwnBodyBlock ==
    /\ EnclosingFunction.node_type = "FunctionDecl"
    /\ frames[1].node = EnclosingFunction.children[3]
    /\ Len(scopes) = 1

\* no visit_FunctionDecl or visit_MainFunc is active: each one begun has
\* returned
NoFunctionUnderVisit ==
    /\ BetweenFunctions
    /\ ~(semState = "analyzing" /\ frames # <<>> /\ frames[1].kind = "restore")

FrameFieldsSound ==
    /\ NoFunctionUnderVisit =>
          (current_return_type = "None" /\ pending_params = NoneParams)
    /\ InFunctionBody =>
          /\ current_return_type = ReturnTypeOf(EnclosingFunction)
          /\ EnclosingFunction.node_type = "MainFunc" => pending_params = NoneParams
          /\ Len(scopes) >= 2 => ~Truthy(pending_params)

\* C29: the pending parameters of a function are declared only at the entry
\* of its own body block, never into a nested block nor into the block of a
\* later function or of main; with no parameter no block declares anything.
\* Between two top-level functions current_return_type and pending_params are
\* what they were before the visit (None); in the body of main
\* current_return_type is None, and in the body of a function, at any depth,
\* it is the declared return type.
C29_FunctionFrame ==
    /\ []FrameFieldsSound
    /\ [][Visiting("Block") =>
             IF Truthy(pending_params)
             THEN /\ AtOwnBodyBlock
                  /\ pending_params.pairs = ParamPairsOf(EnclosingFunction.children[2])
                  /\ semState' = "analyzing" =>
                        (pending_params' = NoneParams
                         /\ scopes' = Append(scopes, pending_params.pairs))
             ELSE /\ scopes' = Append(scopes, <<>>)
                  /\ pending_params' = pending_params
                  /\ semState' = "analyzing"
         ]_vars

\* in the block nested in the body of  d7kmslsl f ( d7kmslsl a , d7krqm b ):
\* the return type is that of f, the parameters are in the scope of the body
\* and nothing is pending
C29_Witness ==
    /\ InFunctionBody
    /\ EnclosingFunction.node_type = "FunctionDecl"
    /\ current_return_type = "d7kmslsl"
    /\ pending_params = NoneParams
    /\ Len(scopes) = 3
    /\ scopes[2] = <<[name |-> "a", dtype |-> "d7kmslsl"],
                     [name |-> "b", dtype |-> "d7krqm"]>>
    /\ scopes[3] = <<>>

\* the FunctionDecl node of the program that declares name
FunctionNode(name) ==
    root.children[CHOOSE i \in 1..Len(root.children) :
                      /\ root.children[i].node_type = "FunctionDecl"
                      /\ root.children[i].value = name]

\* no statement of the body of fn is a return: fn returns on no path, or on
\* the paths through a nested block only
NoReturnInBody(fn) ==
    \A i \in 1..Len(fn.children[3].children) :
        fn.children[3].children[i].node_type # "Return"

\* the analyzer is about to visit  T v = f ( ... ) ;  with f a declared
\* function whose body holds no return statement
VisitingCallOfNoReturn ==
    /\ VisitingCallInit
    /\ Len(frames[1].node.children[2].children)
         = Len(DictGet(table, frames[1].node.children[2].value).param_types)
    /\ \A i \in 1..Len(frames[1].node.children[2].children) :
          Compatible(DictGet(table, frames[1].node.children[2].value).param_types[i],
                     visit_expr(frames[1].node.children[2].children[i],
                                scopes, table).type)
    /\ NoReturnInBody(FunctionNode(frames[1].node.children[2].value))

\* C30: the analyzer asks no function for a return statement.  A function
\* of any return type whose body holds no return, or returns on some paths
\* only, is entered and left without an error, and a call to it has the
\* declared return type.
C30_NoReturnRequired ==
    [][/\ (Visiting("FunctionDecl") /\ ~InDict(table, frames[1].node.value)) =>
             semState' = "analyzing"
       /\ (semState = "analyzing" /\ frames # <<>> /\ frames[1].kind = "restore") =>
             semState' = "analyzing"
       /\ VisitingCallOfNoReturn =>
             InitWithType(FunctionNode(frames[1].node.children[2].value).children[1].value)
      ]_vars

\* the string function f, which returns inside an if only, has been analysed
\* and its call has initialised the string v of main
C30_Witness ==
    /\ semState = "analyzing"
    /\ Len(root.children) = 2
    /\ root.children[1].children[1].value = "d7kmslsl"
    /\ NoReturnInBody(root.children[1])
    /\ CountNodes(<<root.children[1]>>, 1, "Return") = 1
    /\ scopes = << <<>>, <<[name |-> "v", dtype |-> "d7kmslsl"]>> >>

====
